---- MODULE Spec2Model ----
(***************************************************************************)
(* A model of the plant-assistant agent orchestration layer:               *)
(*   - the chat service (chat/services/chat_service.py), which serves one  *)
(*     HTTP request per ChatService instance,                              *)
(*   - the LangGraph conversation engine (chat/agent.py),                  *)
(*   - the diagnosis tools and their module-global state (chat/tools.py),  *)
(*   - the user-context service over the vector store                      *)
(*     (chat/services/context_service.py, database/pinecone.py).           *)
(*                                                                         *)
(* Concurrency is asyncio's: one action is the code that runs between two  *)
(* suspension points (awaits) of one request; requests interleave only at  *)
(* those points.                                                           *)
(*                                                                         *)
(* Scores are kept in tenths (10 = 1.0, 6 = 0.6, 1 = 0.1).                 *)
(***************************************************************************)
EXTENDS Integers, Sequences, FiniteSets, TLC

(***************************************************************************)
(* Bounds of the model.                                                    *)
(***************************************************************************)
\* Tool batches the model may request in one turn (the code sets no limit).
MaxToolRounds == 1
\* Requests (turns) the server is sent in one behaviour.
MaxTurns == 2
\* Oldest stored timestamp, in days before the service clock.
MaxAge == 40
\* Largest top_k a caller passes in the retrieval specification.
MaxTopK == 3
\* Longest candidate list handed to the diagnosis aggregator.
MaxCandidates == 3

\* The request handlers that can be active at once; each serves one request
\* at a time, with a ChatService instance of its own per request.
ReqSeq == <<"r1", "r2">>
Reqs == {ReqSeq[i] : i \in 1..Len(ReqSeq)}
Users == {"u1", "u2"}
\* Conversation ids in the order the database hands them out
\* (ConversationSession.id, used as the thread key).
ConvIdSeq == <<"c1", "c2">>
ConvIds == {ConvIdSeq[i] : i \in 1..Len(ConvIdSeq)}
\* Python's None.
None == "None"

VARIABLES
    env,            \* the environment: what the server is sent and what fails
    turns,          \* requests received so far; a request's number is its turn
    completed,      \* completed[c]: the turns of conversation c whose graph
                    \* run ended and whose reply was returned
    pc,             \* pc[r]: where request r stands
    req,            \* req[r]: the request's inputs
    state,          \* state[r]: the ConversationState of r's graph run
    rounds,         \* rounds[r]: tool batches r's graph run has executed
    checkpointer,   \* checkpointer[r][thread]: the MemorySaver of r's agent
    llm_input,      \* llm_input[r]: the message list last passed to the LLM
    agent_response, \* agent_response[r]: what agent.process_message returned
    result,         \* result[r]: what ChatService.process_message returned
    current_state,  \* tools._current_state (module global)
    store,          \* the vector store's user_context namespace
    configured,     \* settings.PINECONE_API_KEY and index name are set
    db_convs,       \* ConversationSession rows: conversation id -> owner
    db_msgs,        \* committed ChatMessage rows per user
    context_data,   \* context_data[r]: locals of process_conversation_end
    ret             \* the call record of the specifications of single calls
                    \* (retrieval, storing, diagnosis aggregation, ...)

vars == <<env, turns, completed, pc, req, state, rounds, checkpointer, llm_input, agent_response,
          result, current_state, store, configured, db_convs, db_msgs,
          context_data, ret>>

Max(a, b) == IF a >= b THEN a ELSE b
Min(a, b) == IF a <= b THEN a ELSE b

Range(s) == {s[i] : i \in 1..Len(s)}

RECURSIVE SeqsOver(_)
\* All orderings of a finite set, as sequences without repetition.
SeqsOver(S) ==
    IF S = {} THEN {<<>>}
    ELSE UNION {{<<x>> \o t : t \in SeqsOver(S \ {x})} : x \in S}


(***************************************************************************)
(* The vector store (Pinecone), namespace user_context.                    *)
(* An entry is one vector's metadata; its id is user_<u>_conv_<c>, so the  *)
(* store holds at most one entry per (user, conv) pair.                    *)
(***************************************************************************)
\* The service clock's day; stored days run from 0 to Now + 1 (a timestamp
\* of the future relative to the clock).
Now == MaxAge

MissingTs == [kind |-> "missing", day |-> 0]
BadTs == [kind |-> "bad", day |-> 0]
IsoTs(d) == [kind |-> "iso", day |-> d]

ContextId(user_id, conversation_id) == <<user_id, conversation_id>>

\* The entries matching a metadata filter {user_id[, conversation_id]}.
Matching(st, user_id, conversation_id) ==
    {e \in st :
        /\ e.user_id = user_id
        /\ (conversation_id # None => e.conversation_id = conversation_id)}

\* A store that ignores top_k and answers with every matching entry.
QueryVector_Unbounded(st, cfg, top_k, user_id, conversation_id) ==
    IF ~cfg THEN {[raised |-> FALSE, matches |-> <<>>]}
    ELSE {[raised |-> TRUE, matches |-> <<>>]} \cup
         {[raised |-> FALSE, matches |-> s] :
             s \in SeqsOver(Matching(st, user_id, conversation_id))}

\* pinecone.query_vector: the outcomes one call can have.  Not configured:
\* no match.  Otherwise the query may raise (network, or top_k < 1 which the
\* store rejects), or it returns top_k of the matching entries; with the
\* all-zero placeholder vector the similarity order among them is whatever
\* the store picks.
QueryVector(st, cfg, top_k, user_id, conversation_id) ==
    IF ~cfg THEN {[raised |-> FALSE, matches |-> <<>>]}
    ELSE {[raised |-> TRUE, matches |-> <<>>]} \cup
         (IF top_k < 1 THEN {}
          ELSE LET M == Matching(st, user_id, conversation_id)
                   n == Min(top_k, Cardinality(M))
               IN  {[raised |-> FALSE, matches |-> s] :
                      s \in UNION {SeqsOver(T) :
                              T \in {U \in SUBSET M : Cardinality(U) = n}}})

\* (datetime.now() - timestamp).days
DaysAgo(ts) == Now - ts.day

\* The recency score of context_service.py:250-260, in tenths.
RecencyScore(ts) ==
    IF ts.kind = "missing" THEN 5
    ELSE IF ts.kind = "bad" THEN 5
    ELSE Max(1, 10 - DaysAgo(ts))

\* One context result built from a match's metadata.
ContextResult(e) ==
    [relevance_score |-> RecencyScore(e.timestamp),
     conversation_id |-> e.conversation_id,
     timestamp       |-> e.timestamp,
     summary         |-> e.summary,
     user_id         |-> e.user_id]

RECURSIVE InsertByScore(_, _)
\* Insert x after every element whose score is >= x's (stable, descending).
InsertByScore(sorted, x) ==
    IF sorted = <<>> THEN <<x>>
    ELSE IF Head(sorted).relevance_score >= x.relevance_score
         THEN <<Head(sorted)>> \o InsertByScore(Tail(sorted), x)
         ELSE <<x>> \o sorted

RECURSIVE SortByRelevance(_)
\* list.sort(key=relevance_score, reverse=True): stable, descending.
SortByRelevance(s) ==
    IF s = <<>> THEN <<>>
    ELSE InsertByScore(SortByRelevance(SubSeq(s, 1, Len(s) - 1)), s[Len(s)])

\* The context results for the matches of one query, in match order.
FormatResults(matches) == [i \in 1..Len(matches) |-> ContextResult(matches[i])]

\* A retrieval without the except clause: a failed query reaches the caller.
RetrieveUserContext_NoExcept(st, cfg, user_id, top_k, conversation_id) ==
    {[raised |-> q.raised, query_raised |-> q.raised, matches |-> q.matches,
      results |-> SortByRelevance(FormatResults(q.matches))] :
     q \in QueryVector(st, cfg, top_k, user_id, conversation_id)}

\* UserContextService.retrieve_user_context: the outcomes of one call, each
\* [raised, query_raised, matches, results] (query_raised: the store's query
\* raised; matches: what the store answered).  Every exception is caught
\* and becomes the empty list.
RetrieveUserContext(st, cfg, user_id, top_k, conversation_id) ==
    {IF q.raised
        THEN [raised |-> FALSE, query_raised |-> TRUE, matches |-> <<>>,
              results |-> <<>>]
        ELSE [raised |-> FALSE, query_raised |-> FALSE, matches |-> q.matches,
              results |-> SortByRelevance(FormatResults(q.matches))] :
     q \in QueryVector(st, cfg, top_k, user_id, conversation_id)}


(***************************************************************************)
(* Messages.  A message is [role, kind, turn, n, src]: turn is the turn    *)
(* that created it and n its creation ordinal in that run (together the    *)
(* message id add_messages assigns); src is, for an image-tool result, the *)
(* turn whose state the tool read (0 for any other message).               *)
(***************************************************************************)
Msg(role, kind, turn, n, src) ==
    [role |-> role, kind |-> kind, turn |-> turn, n |-> n, src |-> src]

HumanMessage(turn, n) == Msg("human", "user", turn, n, 0)
SystemMessage(kind, turn, n) == Msg("system", kind, turn, n, 0)
AIMessage(kind, turn, n) == Msg("ai", kind, turn, n, 0)
ToolMessage(kind, turn, n, src) == Msg("tool", kind, turn, n, src)

SameId(a, b) == a.turn = b.turn /\ a.n = b.n

\* getattr(message, "tool_calls", None) is non-empty.
HasToolCalls(m) == m.role = "ai" /\ m.kind \in {"call_image", "call_text"}

Apology == "I apologize, but I encountered an error. Please try again."
NoResponse == "I apologize, but I couldn't generate a proper response."
ProcessingError ==
    "I apologize, but I encountered an error processing your message. Please try again."

\* The content of an assistant message.
Content(m) ==
    CASE m.kind = "text" -> "answer"
      [] m.kind = "apology" -> Apology
      [] OTHER -> ""

RECURSIVE add_messages(_, _)
\* langgraph's reducer of the messages channel: a message of the update
\* whose id is already in the list replaces it in place, any other is
\* appended.
add_messages(left, right) ==
    IF right = <<>> THEN left
    ELSE LET m == Head(right)
             idx == {i \in 1..Len(left) : SameId(left[i], m)}
             merged == IF idx = {} THEN Append(left, m)
                       ELSE [left EXCEPT ![CHOOSE i \in idx : TRUE] = m]
         IN  CHOOSE out \in {add_messages(l, t) :
                                l \in {merged}, t \in {Tail(right)}} : TRUE

Last(s) == s[Len(s)]

\* A router that never sends the turn to the tools.
ShouldUseTools_Never(messages) == "save"

\* A router that looks for a tool request anywhere in the list.
ShouldUseTools_Any(messages) ==
    IF \E i \in 1..Len(messages) : HasToolCalls(messages[i]) THEN "tools"
    ELSE "save"

\* PlantAssistantAgent._should_use_tools
ShouldUseTools(messages) ==
    IF messages = <<>> THEN "save"
    ELSE IF HasToolCalls(Last(messages)) THEN "tools"
    ELSE "save"

\* An edge that leads every answer of the model to save_context.
AfterChat_Save(messages) == "save_context"

\* The conditional edge of the graph after the chat node.
AfterChat(messages) ==
    IF ShouldUseTools(messages) = "tools" THEN "tools" ELSE "save_context"


(***************************************************************************)
(* The chat service and the agent: records.                                *)
(***************************************************************************)
\* The message texts told apart: empty, at most two words, longer.
Texts == {"empty", "short", "long"}

NoSummary == <<0, "none">>

\* user_context values: None, the chat service's context_dict, or one of
\* the profiles LoadContext builds.
UserContext(kind, recent, total, relevant) ==
    [kind |-> kind, recent_conversations |-> recent,
     total_context_entries |-> total, relevant_entries |-> relevant]
NoContext == UserContext("None", <<>>, 0, 0)

NoRequest ==
    [turn |-> 0, user_id |-> None, given |-> None, conversation_id |-> None,
     message |-> "empty", image_data |-> None, after |-> {}]
NoState ==
    [messages |-> <<>>, user_context |-> NoContext, image_data |-> None,
     error |-> None]
\* What the tools read of the state dict _current_state refers to.
NoCurrentState == [turn |-> 0, conversation_id |-> None, image_data |-> None]
NoResult == [status |-> "none", response |-> "", error |-> None]
NoContextData == [summary |-> NoSummary, stored |-> "none"]

\* The pcs at which a graph run stands before one of its nodes.
NodePcs == {"load_context", "retrieve_context", "chat", "tools", "save_context"}
InFlight(r) == pc[r] # "idle"

\* The server gives a request to the first idle handler.
FirstIdle ==
    LET idle == {i \in 1..Len(ReqSeq) : pc[ReqSeq[i]] = "idle"}
    IN  IF idle = {} THEN None
        ELSE ReqSeq[CHOOSE i \in idle : \A j \in idle : i <= j]

\* Conversation ids taken: committed rows and those of requests in flight.
TakenConvIds ==
    {c \in ConvIds : db_convs[c] # None} \cup
    {req[r].conversation_id : r \in {q \in Reqs : InFlight(q)}}

\* ChatService.process_message, lines 58-79: the context_dict handed to the
\* agent.  Only entries scoring above 0.6 are kept.
RelevantContext(user_context) ==
    SelectSeq(user_context, LAMBDA ctx : ctx.relevance_score > 6)

ContextDict(user_context) ==
    LET relevant_context == RelevantContext(user_context)
    IN  IF user_context # <<>> /\ relevant_context # <<>>
        THEN UserContext("dict",
                 [i \in 1..Min(3, Len(relevant_context)) |->
                     relevant_context[i].summary],
                 Len(user_context), Len(relevant_context))
        ELSE NoContext

\* PlantAssistantAgent.process_message, lines 512-551: the initial state.
InitialState(turn, image_data, user_context, n) ==
    [messages |-> <<HumanMessage(turn, n)>>, user_context |-> user_context,
     image_data |-> image_data, error |-> None]

\* app.ainvoke(initial_state, config): the input is merged into the state
\* the agent's checkpointer holds for the thread; the messages channel by
\* its reducer, every other channel by overwriting.
GraphInput(saved, initial_state) ==
    [initial_state EXCEPT !.messages = add_messages(saved, initial_state.messages)]

\* The user id the chat service passes is str(user_id).
UserIdIsInt == FALSE


(***************************************************************************)
(* ChatService.process_message up to the agent call.                       *)
(***************************************************************************)
\* ChatService(db) and process_message lines 36-52: a fresh agent (with its
\* own MemorySaver) is built, the conversation is looked up or created, and
\* the service awaits the context retrieval.
SvcStart(r) ==
    /\ pc[r] = "idle"
    /\ turns < MaxTurns
    /\ Cardinality({q \in Reqs : InFlight(q)}) < env.max_in_flight
    /\ r = FirstIdle
    /\ turns' = turns + 1
    /\ \E u \in env.users, given \in env.given, message \in env.texts,
          image_data \in {None, "image"} :
        LET free == {i \in 1..Len(ConvIdSeq) : ConvIdSeq[i] \notin TakenConvIds}
            found == given # None /\ db_convs[given] = u
            conv == IF given # None THEN given
                    ELSE ConvIdSeq[CHOOSE i \in free : \A j \in free : i <= j]
        IN  /\ given = None => free # {}
            /\ IF given # None /\ ~found
               THEN \* ValueError: rolled back and re-raised to the route
                    /\ pc' = [pc EXCEPT ![r] = "raised"]
                    /\ result' = [result EXCEPT ![r].status = "raised"]
                    /\ req' = [req EXCEPT ![r] =
                           [NoRequest EXCEPT !.turn = turns + 1,
                                             !.user_id = u, !.given = given,
                                             !.message = message,
                                             !.image_data = image_data]]
               ELSE /\ pc' = [pc EXCEPT ![r] = "svc_retrieve"]
                    /\ result' = result
                    /\ req' = [req EXCEPT ![r] =
                           [turn |-> turns + 1, user_id |-> u,
                            given |-> given, conversation_id |-> conv,
                            message |-> message, image_data |-> image_data,
                            after |-> completed[conv]]]
    /\ checkpointer' = [checkpointer EXCEPT ![r] = [c \in ConvIds |-> <<>>]]
    /\ UNCHANGED <<env, completed, state, rounds, llm_input, agent_response,
                   current_state, store, configured, db_convs, db_msgs,
                   context_data, ret>>

\* process_message lines 52-100 and agent.process_message lines 512-560:
\* the retrieval answers, the context_dict is built, the user message is
\* flushed and the graph run starts from the thread's checkpoint.
SvcRetrieve(r) ==
    /\ pc[r] = "svc_retrieve"
    /\ \E out \in RetrieveUserContext(store, configured, req[r].user_id, 3, None) :
        IF out.raised
        THEN /\ pc' = [pc EXCEPT ![r] = "raised"]
             /\ result' = [result EXCEPT ![r].status = "raised"]
             /\ UNCHANGED state
        ELSE LET thread == req[r].conversation_id
                 saved == checkpointer[r][thread]
             IN  /\ state' = [state EXCEPT ![r] =
                        GraphInput(saved,
                            InitialState(req[r].turn, req[r].image_data,
                                ContextDict(out.results), Len(saved) + 1))]
                 /\ pc' = [pc EXCEPT ![r] = "load_context"]
                 /\ result' = result
    /\ UNCHANGED <<env, turns, completed, req, rounds, checkpointer, llm_input, agent_response,
                   current_state, store, configured, db_convs, db_msgs,
                   context_data, ret>>

(***************************************************************************)
(* The nodes of the conversation graph.                                    *)
(***************************************************************************)
\* app.ainvoke(initial_state, config) with a config that sets no
\* recursion_limit: the runtime's default applies.
RecursionLimit == 25

\* The nodes the run of r has executed when the node at pc[r] has ended.
StepsDone(r) ==
    CASE pc[r] = "load_context" -> 1
      [] pc[r] = "retrieve_context" -> 2
      [] pc[r] \in {"chat", "chat_llm"} -> 3 + 2 * rounds[r]
      [] OTHER -> 4 + 2 * rounds[r]

\* A runtime that runs the graph for as many steps as it takes.
Proceed_NoLimit(r, next) == next

\* The runtime goes on to the node the edge names, unless the run has used
\* its steps: then it raises GraphRecursionError.
Proceed(r, next) ==
    IF StepsDone(r) >= RecursionLimit THEN "graph_raise" ELSE next

\* The runtime writes the thread's checkpoint after every node.
Checkpoint(r, messages) ==
    [checkpointer EXCEPT ![r][req[r].conversation_id] = messages]

\* A node without the branch for a retrieval that returned nothing.
LoadUserContext_NoDefault(user_context, is_int, message, answers) ==
    IF user_context.kind # "None"
    THEN {[user_context |-> user_context, called |-> FALSE,
           answer |-> <<>>, query_raised |-> FALSE]}
    ELSE IF ~(message # "empty" /\ is_int)
    THEN {[user_context |-> UserContext("fallback", <<>>, 0, 0),
           called |-> FALSE, answer |-> <<>>, query_raised |-> FALSE]}
    ELSE {[user_context |->
               IF out.raised THEN UserContext("error", <<>>, 0, 0)
               ELSE IF out.results # <<>>
                    THEN UserContext("aggregated", <<>>, 0, 0)
                    ELSE user_context,
           called |-> TRUE, answer |-> out.results,
           query_raised |-> out.query_raised] : out \in answers}

\* _load_user_context, lines 88-181: the profile the node leaves, whether
\* it called the context service, and what the service answered.  A
\* profile in the state is kept; a user id that is not an int or an empty
\* message gives the fallback profile without a call; otherwise the
\* profile is built from the answer, the default one when the answer is
\* empty; the except clause writes the error profile.
LoadUserContext(user_context, is_int, message, answers) ==
    IF user_context.kind # "None"
    THEN {[user_context |-> user_context, called |-> FALSE,
           answer |-> <<>>, query_raised |-> FALSE]}
    ELSE IF ~(message # "empty" /\ is_int)
    THEN {[user_context |-> UserContext("fallback", <<>>, 0, 0),
           called |-> FALSE, answer |-> <<>>, query_raised |-> FALSE]}
    ELSE {[user_context |->
               IF out.raised THEN UserContext("error", <<>>, 0, 0)
               ELSE IF out.results # <<>>
                    THEN UserContext("aggregated", <<>>, 0, 0)
                    ELSE UserContext("default", <<>>, 0, 0),
           called |-> TRUE, answer |-> out.results,
           query_raised |-> out.query_raised] : out \in answers}

\* The keys load_context and the prompt read of a profile, by the branch
\* that built it: experience_level, and plants_discussed (Missing when the
\* dict has no such key).  The entries the context service returns carry
\* none of the profile's fields, so the aggregated profile keeps the
\* values it starts from.
ProfileOf(user_context) ==
    CASE user_context.kind \in {"aggregated", "default"} ->
            [keys |-> {"user_id", "plants_discussed", "experience_level",
                       "preferences", "common_issues", "environment", "goals"},
             experience_level |-> "beginner", plants_discussed |-> <<>>]
      [] user_context.kind = "fallback" ->
            [keys |-> {"user_id", "plants_discussed", "experience_level"},
             experience_level |-> "beginner", plants_discussed |-> <<>>]
      [] user_context.kind = "error" ->
            [keys |-> {"user_id", "experience_level"},
             experience_level |-> "beginner", plants_discussed |-> <<>>]
      [] user_context.kind = "dict" ->
            [keys |-> {"most_recent_plant", "context_summary",
                       "recent_conversations", "total_context_entries",
                       "relevant_entries"},
             experience_level |-> "<missing>", plants_discussed |-> <<>>]
      [] OTHER ->
            [keys |-> {}, experience_level |-> "<missing>",
             plants_discussed |-> <<>>]

\* PlantAssistantAgent._load_user_context
LoadContext(r) ==
    /\ pc[r] = "load_context"
    /\ \E out \in LoadUserContext(state[r].user_context, UserIdIsInt,
                      req[r].message,
                      RetrieveUserContext(store, configured, req[r].user_id,
                                          3, req[r].conversation_id)) :
          state' = [state EXCEPT ![r].user_context = out.user_context]
    /\ pc' = [pc EXCEPT ![r] = "retrieve_context"]
    /\ checkpointer' = Checkpoint(r, state[r].messages)
    /\ UNCHANGED <<env, turns, completed, req, rounds, llm_input, agent_response, result,
                   current_state, store, configured, db_convs, db_msgs,
                   context_data, ret>>

\* A node that appends the context message to the list.
InsertBeforeLast_Append(messages, m) == Append(messages, m)

\* messages.insert(-1, context_msg)
InsertBeforeLast(messages, m) ==
    SubSeq(messages, 1, Len(messages) - 1) \o <<m, Last(messages)>>

\* PlantAssistantAgent._retrieve_relevant_context.  The node mutates the
\* list the messages channel holds and returns it, so the reducer finds
\* every message of the update already in place.
RetrieveContext(r) ==
    /\ pc[r] = "retrieve_context"
    /\ LET messages == state[r].messages
       IN  \E out \in (IF req[r].message # "empty"
                       THEN RetrieveUserContext(store, configured,
                                req[r].user_id, 5, req[r].conversation_id)
                       ELSE {[raised |-> FALSE, matches |-> <<>>,
                              results |-> <<>>]}) :
             LET context_summaries ==
                     SelectSeq(out.results, LAMBDA ctx : ctx.summary # NoSummary)
                 injected ==
                     IF ~out.raised /\ context_summaries # <<>>
                     THEN InsertBeforeLast(messages,
                              SystemMessage("context", req[r].turn,
                                            Len(messages) + 1))
                     ELSE messages
             IN  /\ state' = [state EXCEPT ![r].messages =
                                  add_messages(injected, injected)]
                 /\ checkpointer' = Checkpoint(r, injected)
    /\ pc' = [pc EXCEPT ![r] = "chat"]
    /\ UNCHANGED <<env, turns, completed, req, rounds, llm_input, agent_response, result,
                   current_state, store, configured, db_convs, db_msgs,
                   context_data, ret>>

\* tools.set_current_state
SetCurrentState(r) ==
    [turn |-> req[r].turn, conversation_id |-> req[r].conversation_id,
     image_data |-> state[r].image_data]

\* _chat_with_tools lines 342-345: the list passed to the model.
LLMMessages(r, messages) ==
    IF \E i \in 1..Len(messages) : messages[i].role = "system"
    THEN messages
    ELSE <<SystemMessage("prompt", req[r].turn, Len(messages) + 1)>>
         \o messages

\* _chat_with_tools lines 318-348: up to the await of the model.
ChatCall(r) ==
    /\ pc[r] = "chat"
    /\ current_state' = SetCurrentState(r)
    /\ llm_input' = [llm_input EXCEPT ![r] = LLMMessages(r, state[r].messages)]
    /\ pc' = [pc EXCEPT ![r] = "chat_llm"]
    /\ UNCHANGED <<env, turns, completed, req, state, rounds, checkpointer, agent_response, result,
                   store, configured, db_convs, db_msgs, context_data, ret>>

\* What the awaited model call can do: answer in text, answer with empty
\* content, request a tool, or raise.
LLMOutcomes(r) ==
    env.llm \cap
    ({"text", "empty", "raise"} \cup
     (IF rounds[r] < env.tool_rounds THEN {"call_image", "call_text"} ELSE {}))

\* A chat node whose except clause records the error but adds no message.
ChatMessages_NoApology(r, outcome) ==
    IF outcome = "raise"
    THEN state[r].messages
    ELSE add_messages(state[r].messages,
             llm_input[r] \o
                 <<AIMessage(outcome, req[r].turn, Len(llm_input[r]) + 1)>>)

\* _chat_with_tools lines 373-385: the messages the node leaves.
ChatMessages(r, outcome) ==
    IF outcome = "raise"
    THEN add_messages(state[r].messages,
             state[r].messages \o
                 <<AIMessage("apology", req[r].turn,
                             Len(state[r].messages) + 1)>>)
    ELSE add_messages(state[r].messages,
             llm_input[r] \o
                 <<AIMessage(outcome, req[r].turn, Len(llm_input[r]) + 1)>>)

\* _chat_with_tools line 378: state["error"] = str(e)
ChatError(r, outcome) == IF outcome = "raise" THEN "error" ELSE state[r].error

\* _chat_with_tools from the model's answer on, and the conditional edge.
ChatReturn(r) ==
    /\ pc[r] = "chat_llm"
    /\ \E outcome \in LLMOutcomes(r) :
        \E messages \in {ChatMessages(r, outcome)} :
            /\ state' = [state EXCEPT ![r].messages = messages,
                                      ![r].error = ChatError(r, outcome)]
            /\ checkpointer' = Checkpoint(r, messages)
            /\ pc' = [pc EXCEPT ![r] = Proceed(r, AfterChat(messages))]
    /\ UNCHANGED <<env, turns, completed, req, rounds, llm_input, agent_response, result,
                   current_state, store, configured, db_convs, db_msgs,
                   context_data, ret>>

\* tools.get_current_state
GetCurrentState == current_state

\* tools.py line 57: diagnosis/service.py defines no get_diagnosis_service,
\* so the import inside the image tool raises.
DiagnosisImportable == FALSE

\* diagnose_plant_from_image: the kinds of result it can return, given the
\* state it read.
ImageToolResults(read) ==
    LET image_base64 == read.image_data
    IN  IF ~DiagnosisImportable THEN {"image_error"}
        ELSE IF image_base64 = None THEN {"no_image"}
        ELSE {"visual_api", "image_error"}

\* diagnose_plant_from_text: the kinds of result it can return.
TextToolResults == {"context_based", "context_fallback", "context_error"}

\* The tool node: runs the tool the last message names and appends its
\* result; the edge leads back to the chat node.
ToolsNode(r) ==
    /\ pc[r] = "tools"
    /\ LET call == Last(state[r].messages)
           read == IF call.kind = "call_image" THEN GetCurrentState
                   ELSE NoCurrentState
           n == Len(state[r].messages) + 1
       IN  \E kind \in (IF call.kind = "call_image"
                        THEN ImageToolResults(read) ELSE TextToolResults) :
             \E messages \in {add_messages(state[r].messages,
                                 <<ToolMessage(kind, req[r].turn, n, read.turn)>>)} :
                 /\ state' = [state EXCEPT ![r].messages = messages]
                 /\ checkpointer' = Checkpoint(r, messages)
    /\ rounds' = [rounds EXCEPT ![r] = @ + 1]
    /\ pc' = [pc EXCEPT ![r] = Proceed(r, "chat")]
    /\ UNCHANGED <<env, turns, completed, req, llm_input, agent_response,
                   result, current_state, store, configured, db_convs,
                   db_msgs, context_data, ret>>

\* PlantAssistantAgent._save_user_context (it stores nothing), then END.
SaveContext(r) ==
    /\ pc[r] = "save_context"
    /\ pc' = [pc EXCEPT ![r] = "graph_end"]
    /\ checkpointer' = Checkpoint(r, state[r].messages)
    /\ UNCHANGED <<env, turns, completed, req, state, rounds, llm_input, agent_response, result,
                   current_state, store, configured, db_convs, db_msgs,
                   context_data, ret>>

\* The graph runtime raises between two nodes (checkpointing, scheduling).
GraphFail(r) ==
    /\ pc[r] \in NodePcs
    /\ env.faults
    /\ pc' = [pc EXCEPT ![r] = "graph_raise"]
    /\ UNCHANGED <<env, turns, completed, req, state, rounds, checkpointer, llm_input,
                   agent_response, result, current_state, store, configured,
                   db_convs, db_msgs, context_data, ret>>


(***************************************************************************)
(* The return of the agent and the rest of ChatService.process_message.    *)
(***************************************************************************)
\* The content of the last assistant message, "" when there is none.
LastAIContent(messages) ==
    LET ai == {i \in 1..Len(messages) : messages[i].role = "ai"}
    IN  IF ai = {} THEN ""
        ELSE Content(messages[CHOOSE i \in ai : \A j \in ai : j <= i])

\* An agent without the except clause: a failed graph run reaches the caller.
ProcessMessage_NoExcept(final_state, raised) ==
    IF raised
    THEN [status |-> "raised", response |-> "", error |-> "error"]
    ELSE [status |-> "returned",
          response |-> LastAIContent(final_state.messages),
          error |-> final_state.error]

\* PlantAssistantAgent.process_message lines 558-589: the record returned
\* when the graph run ended (raised = FALSE) or raised.
ProcessMessage(final_state, raised) ==
    IF raised
    THEN [status |-> "returned", response |-> ProcessingError,
          error |-> "error"]
    ELSE LET ai_response == LastAIContent(final_state.messages)
         IN  [status |-> "returned",
              response |-> IF ai_response # "" THEN ai_response ELSE NoResponse,
              error |-> final_state.error]

\* ChatService.process_message line 120: the turn is worth summarizing.
Substantial(r) == req[r].message = "long" \/ req[r].image_data # None

\* agent.process_message returns; ChatService stores the assistant message
\* and commits (lines 102-114), then decides on context processing.
AgentReturn(r) ==
    /\ pc[r] \in {"graph_end", "graph_raise"}
    /\ LET response == ProcessMessage(state[r], pc[r] = "graph_raise")
       IN  /\ agent_response' = [agent_response EXCEPT ![r] = response]
           /\ IF response.status = "raised"
              THEN /\ pc' = [pc EXCEPT ![r] = "raised"]
                   /\ result' = [result EXCEPT ![r].status = "raised"]
                   /\ UNCHANGED <<db_convs, db_msgs>>
              ELSE /\ pc' = [pc EXCEPT ![r] =
                          IF Substantial(r) THEN "ctx_db" ELSE "svc_return"]
                   /\ db_convs' = [db_convs EXCEPT
                          ![req[r].conversation_id] = req[r].user_id]
                   /\ db_msgs' = [db_msgs EXCEPT ![req[r].user_id] = @ + 2]
                   /\ result' = result
    /\ UNCHANGED <<env, turns, completed, req, state, rounds, checkpointer, llm_input, current_state,
                   store, configured, context_data, ret>>

\* A service that lets a failed context processing through as an error.
OnContextProcessed_Surface(ok) == IF ok THEN "svc_return" ELSE "svc_raise"

\* ChatService.process_message lines 118-127: whatever context processing
\* returned or raised, the service goes on to return the reply.
OnContextProcessed(ok) == "svc_return"

\* process_conversation_end lines 297-313: the query for the user's recent
\* messages answers or raises.
CtxQueryDb(r) ==
    /\ pc[r] = "ctx_db"
    /\ \E ok \in BOOLEAN :
        IF ~ok
        THEN /\ context_data' = [context_data EXCEPT ![r].stored = "False"]
             /\ pc' = [pc EXCEPT ![r] = OnContextProcessed(FALSE)]
        ELSE IF db_msgs[req[r].user_id] < 2
        THEN /\ context_data' = [context_data EXCEPT ![r].stored = "True"]
             /\ pc' = [pc EXCEPT ![r] = OnContextProcessed(TRUE)]
        ELSE /\ context_data' = context_data
             /\ pc' = [pc EXCEPT ![r] = "ctx_summarize"]
    /\ UNCHANGED <<env, turns, completed, req, state, rounds, checkpointer, llm_input,
                   agent_response, result, current_state, store, configured,
                   db_convs, db_msgs, ret>>

\* summarize_conversation: the model answers, or raises and the fixed
\* failure text becomes the summary.
CtxSummarize(r) ==
    /\ pc[r] = "ctx_summarize"
    /\ \E ok \in BOOLEAN :
        context_data' = [context_data EXCEPT ![r].summary =
                            <<req[r].turn, IF ok THEN "summary" ELSE "failed">>]
    /\ pc' = [pc EXCEPT ![r] = "ctx_store"]
    /\ UNCHANGED <<env, turns, completed, req, state, rounds, checkpointer, llm_input,
                   agent_response, result, current_state, store, configured,
                   db_convs, db_msgs, ret>>

\* An upsert that adds the vector without replacing the one of the same id.
UpsertVectors_Append(st, entry) == st \cup {entry}

\* pinecone.upsert_vectors under the id user_<u>_conv_<c>.
UpsertVectors(st, entry) ==
    {e \in st : ContextId(e.user_id, e.conversation_id)
                  # ContextId(entry.user_id, entry.conversation_id)}
    \cup {entry}

\* What one store_user_context call can meet: the embedder raises, the
\* upsert raises (a configured store only), or neither.
StoreOutcomes(cfg) ==
    {"embed_raise", "ok"} \cup (IF cfg THEN {"upsert_raise"} ELSE {})

\* UserContextService.store_user_context: the store it leaves and the value
\* it returns.  An empty summary is refused; the entry is upserted under
\* the id of its (user, conversation) pair; the upsert does nothing and
\* counts 0 when the store is not configured; every exception gives False.
StoreUserContext(st, cfg, entry, outcome) ==
    LET ok == entry.summary[2] # "" /\ outcome = "ok" /\ cfg
    IN  [store |-> IF ok THEN UpsertVectors(st, entry) ELSE st,
         stored |-> ok]

\* store_user_context as process_conversation_end calls it, from the
\* embedder's answer on.
CtxStore(r) ==
    /\ pc[r] = "ctx_store"
    /\ \E outcome \in StoreOutcomes(configured) :
        LET entry == [user_id |-> req[r].user_id,
                      conversation_id |-> req[r].conversation_id,
                      timestamp |-> IsoTs(Now),
                      summary |-> context_data[r].summary]
            out == StoreUserContext(store, configured, entry, outcome)
            ok == out.stored
        IN  /\ store' = out.store
            /\ context_data' = [context_data EXCEPT ![r].stored =
                                    IF ok THEN "True" ELSE "False"]
            /\ pc' = [pc EXCEPT ![r] = OnContextProcessed(ok)]
    /\ UNCHANGED <<env, turns, completed, req, state, rounds, checkpointer, llm_input,
                   agent_response, result, current_state, configured,
                   db_convs, db_msgs, ret>>

\* ChatService.process_message lines 129-136 (and the re-raise of 138-141
\* when context processing was let through as an error).
SvcReturn(r) ==
    /\ pc[r] \in {"svc_return", "svc_raise"}
    /\ IF pc[r] = "svc_return"
       THEN /\ result' = [result EXCEPT ![r] =
                   [status |-> "returned",
                    response |-> agent_response[r].response,
                    error |-> None]]
            /\ pc' = [pc EXCEPT ![r] = "done"]
            /\ completed' = [completed EXCEPT ![req[r].conversation_id] =
                                IF agent_response[r].response = ProcessingError
                                THEN @ ELSE @ \cup {req[r].turn}]
       ELSE /\ result' = [result EXCEPT ![r].status = "raised"]
            /\ pc' = [pc EXCEPT ![r] = "raised"]
            /\ completed' = completed
    /\ UNCHANGED <<env, turns, req, state, rounds, checkpointer, llm_input,
                   agent_response, current_state, store, configured, db_convs,
                   db_msgs, context_data, ret>>

(***************************************************************************)
(* The specification of the conversation engine under the chat service.    *)
(***************************************************************************)
NoRet ==
    [op |-> "none", user_id |-> None, top_k |-> 0, conversation_id |-> None,
     raised |-> FALSE, query_raised |-> FALSE, matches |-> <<>>,
     results |-> <<>>, summary |-> NoSummary, stored |-> "none",
     context_dict |-> NoContext]

\* The handler's request is over: its ChatService, agent and locals are
\* dropped and the handler is free for the next request.
Recycle(r) ==
    /\ pc[r] \in {"done", "raised"}
    /\ pc' = [pc EXCEPT ![r] = "idle"]
    /\ req' = [req EXCEPT ![r] = NoRequest]
    /\ state' = [state EXCEPT ![r] = NoState]
    /\ rounds' = [rounds EXCEPT ![r] = 0]
    /\ checkpointer' = [checkpointer EXCEPT ![r] = [c \in ConvIds |-> <<>>]]
    /\ llm_input' = [llm_input EXCEPT ![r] = <<>>]
    /\ agent_response' = [agent_response EXCEPT ![r] = NoResult]
    /\ result' = [result EXCEPT ![r] = NoResult]
    /\ context_data' = [context_data EXCEPT ![r] = NoContextData]
    /\ UNCHANGED <<env, turns, completed, current_state, store, configured,
                   db_convs, db_msgs, ret>>

\* The environment of the turn-by-turn specification: one request at a
\* time, any input, any answer of the model, any failure.
TurnsEnv ==
    [max_in_flight |-> 1, users |-> Users, given |-> ConvIds \cup {None},
     texts |-> {"short", "long"},
     llm |-> {"text", "empty", "raise", "call_image", "call_text"},
     tool_rounds |-> MaxToolRounds, faults |-> TRUE]

\* Before any request: no handler busy, nothing committed.
EngineStart(e, st) ==
    /\ env = e
    /\ turns = 0
    /\ completed = [c \in ConvIds |-> {}]
    /\ pc = [r \in Reqs |-> "idle"]
    /\ req = [r \in Reqs |-> NoRequest]
    /\ state = st
    /\ rounds = [r \in Reqs |-> 0]
    /\ checkpointer = [r \in Reqs |-> [c \in ConvIds |-> <<>>]]
    /\ llm_input = [r \in Reqs |-> <<>>]
    /\ agent_response = [r \in Reqs |-> NoResult]
    /\ result = [r \in Reqs |-> NoResult]
    /\ current_state = NoCurrentState
    /\ configured \in BOOLEAN
    /\ db_convs = [c \in ConvIds |-> None]
    /\ db_msgs = [u \in Users |-> 0]
    /\ context_data = [r \in Reqs |-> NoContextData]
    /\ ret = NoRet

\* No request has been handled: every handler's state is a fresh dict.
EngineInit(e) == EngineStart(e, [r \in Reqs |-> NoState])

\* The service starts on an empty vector store.
InitWith(e) == EngineInit(e) /\ store = {}

Init == InitWith(TurnsEnv)

\* The environment of the concurrent specification: two requests in flight
\* at once, each opening a conversation of its own, with or without an
\* image; the model answers in text or asks for the image tool.
ConcurrentEnv ==
    [max_in_flight |-> 2, users |-> {"u1"}, given |-> {None},
     texts |-> {"short"}, llm |-> {"text", "call_image"},
     tool_rounds |-> MaxToolRounds, faults |-> TRUE]

InitConcurrent == InitWith(ConcurrentEnv)

Next ==
    \E r \in Reqs :
        \/ SvcStart(r)
        \/ SvcRetrieve(r)
        \/ LoadContext(r)
        \/ RetrieveContext(r)
        \/ ChatCall(r)
        \/ ChatReturn(r)
        \/ ToolsNode(r)
        \/ SaveContext(r)
        \/ GraphFail(r)
        \/ AgentReturn(r)
        \/ CtxQueryDb(r)
        \/ CtxSummarize(r)
        \/ CtxStore(r)
        \/ SvcReturn(r)
        \/ Recycle(r)

Spec == Init /\ [][Next]_vars

SpecConcurrent == InitConcurrent /\ [][Next]_vars

\* The environment of the loop specification: one user, new
\* conversations, a model that may request the image tool on every pass,
\* for more passes than the runtime lets a run take.
LoopEnv ==
    [max_in_flight |-> 1, users |-> {"u1"}, given |-> {None},
     texts |-> {"long"}, llm |-> {"text", "raise", "call_image"},
     tool_rounds |-> RecursionLimit \div 2, faults |-> TRUE]

InitLoop == InitWith(LoopEnv)

\* The steps of r's request.  The event loop resumes every coroutine that
\* is ready, and an awaited call of the model, of a tool or of a store
\* answers or raises.
Turn(r) ==
    \/ SvcRetrieve(r)
    \/ LoadContext(r)
    \/ RetrieveContext(r)
    \/ ChatCall(r)
    \/ ChatReturn(r)
    \/ ToolsNode(r)
    \/ SaveContext(r)
    \/ AgentReturn(r)
    \/ CtxQueryDb(r)
    \/ CtxSummarize(r)
    \/ CtxStore(r)
    \/ SvcReturn(r)

SpecLoop == InitLoop /\ [][Next]_vars /\ \A r \in Reqs : WF_vars(Turn(r))


(***************************************************************************)
(* The retrieval specification: calls of retrieve_user_context, directly   *)
(* and from ChatService.process_message, on a vector store of any content. *)
(***************************************************************************)
\* The timestamps an entry's metadata may hold: none, an unparseable one, a
\* day after the service clock's, today, five days ago, the oldest day.
Stamps ==
    {MissingTs, BadTs, IsoTs(Now + 1), IsoTs(Now), IsoTs(Now - 5), IsoTs(0)}

\* The (user, conversation) pairs the store may hold an entry for.
StoredKeySeq == <<<<"u1", "c1">>, <<"u1", "c2">>, <<"u2", "c1">>>>
StoredKeys == 1..Len(StoredKeySeq)

NoEntry == [kind |-> "absent", day |-> 0]

\* The contents of the store: per pair no entry or one, each entry with a
\* summary of its own.
StoredContexts ==
    {{[user_id |-> StoredKeySeq[k][1], conversation_id |-> StoredKeySeq[k][2],
       timestamp |-> f[k], summary |-> <<k, "summary">>] : k \in {j \in StoredKeys : f[j] # NoEntry}} :
     f \in [StoredKeys -> Stamps \cup {NoEntry}]}

\* A caller awaits retrieve_user_context(user_id, message, top_k,
\* conversation_id).
RetrieveCall(user_id, top_k, conversation_id) ==
    /\ \E out \in RetrieveUserContext(store, configured, user_id, top_k,
                                      conversation_id) :
          ret' = [op |-> "retrieve", user_id |-> user_id, top_k |-> top_k,
                  conversation_id |-> conversation_id, raised |-> out.raised,
                  query_raised |-> out.query_raised, matches |-> out.matches,
                  results |-> out.results, summary |-> NoSummary,
                  stored |-> "none", context_dict |-> NoContext]
    /\ UNCHANGED <<env, turns, completed, pc, req, state, rounds, checkpointer,
                   llm_input, agent_response, result, current_state, store,
                   configured, db_convs, db_msgs, context_data>>

\* ChatService.process_message lines 50-79: the retrieval for the user and
\* the context_dict built from it for the agent.
ServiceContext(user_id) ==
    /\ \E out \in RetrieveUserContext(store, configured, user_id, 3, None) :
          ret' = [op |-> "service", user_id |-> user_id, top_k |-> 3,
                  conversation_id |-> None, raised |-> out.raised,
                  query_raised |-> out.query_raised, matches |-> out.matches,
                  results |-> out.results, summary |-> NoSummary,
                  stored |-> "none",
                  context_dict |-> ContextDict(out.results)]
    /\ UNCHANGED <<env, turns, completed, pc, req, state, rounds, checkpointer,
                   llm_input, agent_response, result, current_state, store,
                   configured, db_convs, db_msgs, context_data>>

\* End-to-end scenario 4: five entries of user u1 under conversation c1,
\* written today and 1, 9, 20 and 40 days ago.
Scenario4Ages == <<0, 1, 9, 20, 40>>
Scenario4Store ==
    {[user_id |-> "u1", conversation_id |-> "c1",
      timestamp |-> IsoTs(Now - Scenario4Ages[i]),
      summary |-> <<i, "summary">>] : i \in 1..Len(Scenario4Ages)}

InitRetrieve ==
    EngineInit(TurnsEnv) /\ store \in StoredContexts \cup {Scenario4Store}

NextRetrieve ==
    \/ \E user_id \in Users, top_k \in 0..MaxTopK,
          conversation_id \in ConvIds \cup {None} :
            RetrieveCall(user_id, top_k, conversation_id)
    \/ \E user_id \in Users : ServiceContext(user_id)

SpecRetrieve == InitRetrieve /\ [][NextRetrieve]_vars


(***************************************************************************)
(* The storing specification: calls of store_user_context on a vector      *)
(* store of any content.                                                   *)
(***************************************************************************)
\* The summaries a caller passes: none, a model's summary, the fixed text of
\* a failed summarization.
StoredSummaries == {"", "summary", "failed"}

\* The entries of st under the id of the (user, conversation) pair.
EntriesOf(st, user_id, conversation_id) ==
    {e \in st : ContextId(e.user_id, e.conversation_id)
                  = ContextId(user_id, conversation_id)}

\* A caller awaits store_user_context(user_id, context_data,
\* conversation_id).  The number of the call tags its summary, which tells
\* it from the summaries stored before.
StoreCall(user_id, conversation_id, text) ==
    /\ turns < MaxTurns
    /\ turns' = turns + 1
    /\ \E outcome \in StoreOutcomes(configured) :
        LET call == turns + 1
            entry == [user_id |-> user_id, conversation_id |-> conversation_id,
                      timestamp |-> IsoTs(Now),
                      summary |-> <<Len(StoredKeySeq) + call, text>>]
            out == StoreUserContext(store, configured, entry, outcome)
        IN  /\ store' = out.store
            /\ ret' = [op |-> "store", user_id |-> user_id, top_k |-> 1,
                       conversation_id |-> conversation_id, raised |-> FALSE,
                       query_raised |-> FALSE,
                       matches |-> CHOOSE m \in SeqsOver(
                           EntriesOf(store, user_id, conversation_id)) : TRUE,
                       results |-> <<>>, summary |-> entry.summary,
                       stored |-> IF out.stored THEN "True" ELSE "False",
                       context_dict |-> NoContext]
    /\ UNCHANGED <<env, completed, pc, req, state, rounds, checkpointer,
                   llm_input, agent_response, result, current_state,
                   configured, db_convs, db_msgs, context_data>>

InitStore == EngineInit(TurnsEnv) /\ store \in StoredContexts

NextStore ==
    \E user_id \in Users, conversation_id \in ConvIds,
       text \in StoredSummaries :
        StoreCall(user_id, conversation_id, text)

SpecStore == InitStore /\ [][NextStore]_vars

(***************************************************************************)
(* The diagnosis aggregator,                                               *)
(* PlantDiagnosisContextService.aggregate_diagnosis_context.               *)
(* A candidate is [score, plant_name, condition, treatment]; a key the     *)
(* dict does not hold has the value Missing; treatment is [kind, items]    *)
(* with kind "list", "str" (items holds the one string), "other" (neither  *)
(* a list nor a string) or "missing".                                      *)
(***************************************************************************)
Missing == "<missing>"

\* dict.get(key, default)
Get(value, default) == IF value = Missing THEN default ELSE value

\* list.count
Count(s, v) == Cardinality({i \in 1..Len(s) : s[i] = v})

\* max(set(s), key=s.count) for a non-empty list: max returns the first
\* element of greatest count in the iteration order of the set, and that
\* order depends on the strings' hashes (randomized per process) and, for
\* colliding hashes, on the insertion order; among the values of greatest
\* count any one can be the result.
MostCommon(s) ==
    {v \in Range(s) : \A w \in Range(s) : Count(s, v) >= Count(s, w)}

\* Lines 112-113.
PlantNames(context_results) ==
    [i \in 1..Len(context_results) |->
        Get(context_results[i].plant_name, "Unknown")]

\* Lines 116-121: ctx.get("condition") is None for a missing key, which
\* differs from "Unknown", so the candidate passes the filter and
\* contributes the default "Unknown".
Conditions(context_results) ==
    LET kept == SelectSeq(context_results,
                          LAMBDA ctx : ctx.condition # "Unknown")
    IN  [i \in 1..Len(kept) |-> Get(kept[i].condition, "Unknown")]

RECURSIVE AllTreatments(_)
\* Lines 126-133: lists are extended, a string is appended, anything else
\* is skipped; a missing key counts as the empty list.
AllTreatments(context_results) ==
    IF context_results = <<>> THEN <<>>
    ELSE LET treatments == Head(context_results).treatment
         IN  (IF treatments.kind \in {"list", "str"}
              THEN treatments.items ELSE <<>>)
             \o AllTreatments(Tail(context_results))

\* A list(...) that keeps every occurrence.
FromKeys_Keep(s) == s

RECURSIVE FromKeys(_)
\* list(dict.fromkeys(s)): the first occurrence of every element, in order.
FromKeys(s) ==
    IF s = <<>> THEN <<>>
    ELSE LET init == FromKeys(SubSeq(s, 1, Len(s) - 1))
             x == s[Len(s)]
         IN  IF x \in Range(init) THEN init ELSE Append(init, x)

\* s[:n]
Prefix(s, n) == SubSeq(s, 1, Min(n, Len(s)))

\* An aggregator that reports a healthy plant for no candidate.
EmptyAggregate_Healthy ==
    [plant_name |-> "Unknown", condition |-> "Healthy",
     confidence |-> <<0, 1>>, treatments |-> <<>>, similar_cases_count |-> 0]

\* Lines 103-110: the record returned for no candidate.  A confidence is
\* the fraction <<sum of scores in tenths, number of scores>>.
EmptyAggregate ==
    [plant_name |-> "Unknown", condition |-> "Unable to determine",
     confidence |-> <<0, 1>>, treatments |-> <<>>, similar_cases_count |-> 0]

RECURSIVE SumScores(_)
SumScores(context_results) ==
    IF context_results = <<>> THEN 0
    ELSE Head(context_results).score + SumScores(Tail(context_results))

\* aggregate_diagnosis_context: the records one call can return.
AggregateDiagnosisContext(context_results) ==
    IF context_results = <<>> THEN {EmptyAggregate}
    ELSE LET conditions == Conditions(context_results)
         IN  {[plant_name |-> most_common_plant,
               condition |-> most_likely_condition,
               confidence |-> <<SumScores(context_results),
                                Len(context_results)>>,
               treatments |-> Prefix(FromKeys(AllTreatments(context_results)), 5),
               similar_cases_count |-> Len(context_results)] :
              most_common_plant \in MostCommon(PlantNames(context_results)),
              most_likely_condition \in
                  (IF conditions # <<>> THEN MostCommon(conditions)
                   ELSE {"Healthy"})}


(***************************************************************************)
(* The text-diagnosis tool, tools.diagnose_plant_from_text, and the        *)
(* similar-case query it starts with.                                      *)
(***************************************************************************)
\* PlantDiagnosisContextService.query_diagnosis_context: the candidates for
\* the matches the store answered; only matches scoring above 0.6 are
\* kept, and a raised exception (embedder or store) gives no candidate.
QueryDiagnosisContext(search_results, raised) ==
    IF raised THEN <<>>
    ELSE SelectSeq(search_results, LAMBDA match : match.score > 6)

\* The fields of the tool's JSON result the properties speak of, and the
\* calls the tool made on the service, in order.
ToolResult(success, analysis_type, plant_name, condition, confidence, treatments, context_sources, called) ==
    [success |-> success, analysis_type |-> analysis_type,
     plant_name |-> plant_name, condition |-> condition,
     confidence |-> confidence, treatments |-> treatments,
     context_sources |-> context_sources, called |-> called]

\* tools.py lines 176-197: the canned response of the fallback.
FallbackResult ==
    ToolResult(FALSE, "context_fallback", "Unknown", "Unable to determine",
               <<0, 1>>, <<>>, 0, <<"query", "fallback">>)

\* tools.py lines 244-256: the response of the except clause.
ErrorResult(called) ==
    ToolResult(FALSE, "context_error", "Unknown", "Error", <<0, 1>>, <<>>,
               0, called)

\* A tool without the fallback: it aggregates whatever the query gave.
DiagnosePlantFromText_NoFallback(context_results, service_ok) ==
    IF ~service_ok THEN {ErrorResult(<<>>)}
    ELSE {ToolResult(TRUE, "context_based", a.plant_name, a.condition,
                     a.confidence, a.treatments, a.similar_cases_count,
                     <<"query", "aggregate", "generate">>) :
            a \in AggregateDiagnosisContext(context_results)}

\* diagnose_plant_from_text from the query's answer on: the results one
\* call can return.  Building the service may raise (service_ok = FALSE),
\* which the except clause answers; generate_context_diagnosis catches its
\* own exceptions and always returns a text.
DiagnosePlantFromText(context_results, service_ok) ==
    IF ~service_ok THEN {ErrorResult(<<>>)}
    ELSE IF context_results = <<>> THEN {FallbackResult}
    ELSE {ToolResult(TRUE, "context_based", a.plant_name, a.condition,
                     a.confidence, a.treatments, a.similar_cases_count,
                     <<"query", "aggregate", "generate">>) :
            a \in AggregateDiagnosisContext(context_results)}


(***************************************************************************)
(* The diagnosis specification: calls of the aggregator on candidate lists *)
(* of any content, each list aggregated a second time in another order.    *)
(***************************************************************************)
Treatment(kind, items) == [kind |-> kind, items |-> items]

\* The candidates the lists are made of: names and conditions that repeat,
\* tie or are missing, treatments that overlap, repeat, are a single
\* string, are no list at all or are missing.
CandidatePool ==
    {[score |-> 9, plant_name |-> "Rose", condition |-> "Blight",
      treatment |-> Treatment("list", <<"t1", "t2", "t3">>)],
     [score |-> 7, plant_name |-> "Fern", condition |-> "Rot",
      treatment |-> Treatment("list", <<"t3", "t4", "t5">>)],
     [score |-> 8, plant_name |-> "Rose", condition |-> "Unknown",
      treatment |-> Treatment("str", <<"t6">>)],
     [score |-> 7, plant_name |-> Missing, condition |-> Missing,
      treatment |-> Treatment("missing", <<>>)],
     [score |-> 9, plant_name |-> "Fern", condition |-> "Blight",
      treatment |-> Treatment("list", <<"t6", "t1", "t6">>)],
     [score |-> 8, plant_name |-> "Mint", condition |-> "Unknown",
      treatment |-> Treatment("other", <<>>)]}

\* The lists of at most n elements of S.
ListsOver(S, n) == UNION {[1..k -> S] : k \in 0..n}

\* The orders a list can be given in.
PermutationsOf(s) ==
    {[i \in 1..Len(s) |-> s[f[i]]] : f \in Permutations(1..Len(s))}

\* A caller awaits aggregate_diagnosis_context(context_results), and once
\* more with the same candidates in the order permuted.
Aggregate(context_results, permuted) ==
    /\ \E out \in AggregateDiagnosisContext(context_results),
          out_permuted \in AggregateDiagnosisContext(permuted) :
          ret' = [op |-> "aggregate", context_results |-> context_results,
                  permuted |-> permuted, out |-> out,
                  out_permuted |-> out_permuted,
                  all_treatments |-> AllTreatments(context_results)]
    /\ UNCHANGED <<env, turns, completed, pc, req, state, rounds, checkpointer,
                   llm_input, agent_response, result, current_state, store,
                   configured, db_convs, db_msgs, context_data>>

\* The matches the diagnosis store can answer: the candidates above, and
\* two that score 0.6 and 0.5.
MatchPool ==
    CandidatePool \cup
    {[score |-> 6, plant_name |-> "Rose", condition |-> "Rot",
      treatment |-> Treatment("list", <<"t1">>)],
     [score |-> 5, plant_name |-> "Mint", condition |-> "Blight",
      treatment |-> Treatment("list", <<"t2">>)]}

\* The model calls diagnose_plant_from_text.  stored is what the store
\* would answer to the query; the embedder or the store may raise, and a
\* store that is not configured answers nothing.  llm_raised: the language
\* model fails when generate_context_diagnosis asks it for the text.
TextTool(stored, raised, service_ok, llm_raised) ==
    /\ LET search_results == IF configured /\ ~raised THEN stored ELSE <<>>
           context_results == QueryDiagnosisContext(search_results, raised)
       IN  \E out \in DiagnosePlantFromText(context_results, service_ok) :
             ret' = [op |-> "text_tool", stored |-> stored,
                     query_raised |-> raised, service_ok |-> service_ok,
                     llm_raised |-> llm_raised,
                     search_results |-> search_results,
                     context_results |-> context_results, out |-> out]
    /\ UNCHANGED <<env, turns, completed, pc, req, state, rounds, checkpointer,
                   llm_input, agent_response, result, current_state, store,
                   configured, db_convs, db_msgs, context_data>>

\* The fields of the image tool's JSON result, and the calls it made on
\* the diagnosis service.
ImageResult(success, analysis_type, error, treatments, called) ==
    [success |-> success, analysis_type |-> analysis_type, error |-> error,
     treatments |-> treatments, called |-> called]

\* diagnose_plant_from_image: the results one call can return for the
\* image the turn carries.  The import of line 57 comes before the test of
\* the image; whatever is raised is answered by the except clause with the
\* text of the exception.
DiagnosePlantFromImage(image_base64, service_raised) ==
    IF ~DiagnosisImportable
    THEN {ImageResult(FALSE, "image_error", "ImportError", <<>>, <<>>)}
    ELSE IF image_base64 = None
    THEN {ImageResult(FALSE, "image_error", "No image data provided", <<>>,
                      <<>>)}
    ELSE IF service_raised
    THEN {ImageResult(FALSE, "image_error", "Exception", <<>>,
                      <<"diagnose_plant">>)}
    ELSE {ImageResult(TRUE, "visual_api", None, recommendations,
                      <<"diagnose_plant">>) :
            recommendations \in {<<>>, <<"t1">>, <<"t1", "t2">>}}

\* The model calls diagnose_plant_from_image in a turn that carries
\* image_base64 (None: no image); the diagnosis service may raise.
ImageTool(image_base64, service_raised) ==
    /\ \E out \in DiagnosePlantFromImage(image_base64, service_raised) :
          ret' = [op |-> "image_tool", image_base64 |-> image_base64,
                  service_raised |-> service_raised, out |-> out]
    /\ UNCHANGED <<env, turns, completed, pc, req, state, rounds, checkpointer,
                   llm_input, agent_response, result, current_state, store,
                   configured, db_convs, db_msgs, context_data>>

InitDiagnosis == InitWith(TurnsEnv)

\* Calls share nothing, so a behaviour holds one of them.
AggregateCall ==
    /\ ret.op = "none"
    /\ \E context_results \in ListsOver(CandidatePool, MaxCandidates) :
          \E permuted \in PermutationsOf(context_results) :
              Aggregate(context_results, permuted)

TextToolCall ==
    /\ ret.op = "none"
    /\ \E stored \in ListsOver(MatchPool, MaxCandidates),
          raised \in BOOLEAN, service_ok \in BOOLEAN,
          llm_raised \in BOOLEAN :
            TextTool(stored, raised, service_ok, llm_raised)

ImageToolCall ==
    /\ ret.op = "none"
    /\ \E image_base64 \in {None, "image"}, service_raised \in BOOLEAN :
          ImageTool(image_base64, service_raised)

NextDiagnosis == AggregateCall \/ TextToolCall \/ ImageToolCall

SpecDiagnosis == InitDiagnosis /\ [][NextDiagnosis]_vars


(***************************************************************************)
(* The router, called on its own: _should_use_tools on a state dict whose  *)
(* message list is any list of messages of the kinds the graph produces.   *)
(***************************************************************************)
MaxMessages == 3

\* One message of each kind the nodes put in the list.
RouterMessages ==
    {HumanMessage(1, 1), SystemMessage("context", 1, 2),
     AIMessage("text", 1, 3), AIMessage("empty", 1, 3),
     AIMessage("apology", 1, 3), AIMessage("call_image", 1, 3),
     AIMessage("call_text", 1, 3), ToolMessage("visual_api", 1, 4, 1),
     ToolMessage("context_based", 1, 4, 0)}

\* The state dicts the router is called on.
RouterStates ==
    {[NoState EXCEPT !.messages = messages] :
        messages \in ListsOver(RouterMessages, MaxMessages)}

\* The conditional edge evaluates the router on the handler's state; the
\* call record keeps the state it was given, the decision, and the
\* decision of a second evaluation.
Router(r) ==
    LET given == state[r]
        decision == ShouldUseTools(state[r].messages)
        again == ShouldUseTools(state[r].messages)
    IN  /\ ret' = [NoRet EXCEPT !.op = "route", !.user_id = r,
                                !.matches = given.messages,
                                !.results = <<decision, again>>]
        /\ UNCHANGED <<env, turns, completed, pc, req, state, rounds,
                       checkpointer, llm_input, agent_response, result,
                       current_state, store, configured, db_convs, db_msgs,
                       context_data>>

InitRouter ==
    /\ \E given \in RouterStates :
          EngineStart(TurnsEnv, [r \in Reqs |-> IF r = ReqSeq[1] THEN given
                                                ELSE NoState])
    /\ store = {}

\* Calls share nothing, so a behaviour holds one of them.
RouterCall ==
    /\ ret.op = "none"
    /\ \E r \in Reqs : Router(r)

NextRouter == RouterCall

SpecRouter == InitRouter /\ [][NextRouter]_vars


(***************************************************************************)
(* The load_context node, called on its own: on a state with or without a  *)
(* profile, with a user id that is an int or a str, over a store of any    *)
(* content.                                                                *)
(***************************************************************************)
\* The profiles a caller may pass in the state: none, or a context_dict.
GivenProfiles ==
    {NoContext, UserContext("dict", <<<<1, "summary">>>>, 1, 1)}

LoadNode(user_id, is_int, conversation_id, message, user_context) ==
    /\ \E out \in LoadUserContext(user_context, is_int, message,
                      RetrieveUserContext(store, configured, user_id, 3,
                                          conversation_id)) :
          ret' = [op |-> "load", user_id |-> user_id, is_int |-> is_int,
                  conversation_id |-> conversation_id, message |-> message,
                  given |-> user_context, called |-> out.called,
                  query_raised |-> out.query_raised, answer |-> out.answer,
                  user_context |-> out.user_context,
                  profile |-> ProfileOf(out.user_context),
                  raised |-> FALSE, next |-> "retrieve_context"]
    /\ UNCHANGED <<env, turns, completed, pc, req, state, rounds, checkpointer,
                   llm_input, agent_response, result, current_state, store,
                   configured, db_convs, db_msgs, context_data>>

InitLoad == EngineInit(TurnsEnv) /\ store \in StoredContexts

\* Calls share nothing, so a behaviour holds one of them.
LoadCall ==
    /\ ret.op = "none"
    /\ \E user_id \in Users, is_int \in BOOLEAN,
          conversation_id \in ConvIds \cup {None}, message \in Texts,
          user_context \in GivenProfiles :
            LoadNode(user_id, is_int, conversation_id, message, user_context)

NextLoad == LoadCall

SpecLoad == InitLoad /\ [][NextLoad]_vars


(***************************************************************************)
(* The diagnosis upload endpoint (app/routes/diagnose.py) and the          *)
(* diagnosis pipeline it awaits.  The call record holds the upload, the    *)
(* DiagnosisState of the pipeline and the endpoint's response.             *)
(***************************************************************************)
MAX_FILE_SIZE == 10 * 1024 * 1024

\* A content type is the list of its parts around the first "/": <<>> is
\* None, <<"">> the empty string, <<"image">> a string without "/".
ContentTypes ==
    {<<>>, <<"">>, <<"image">>, <<"text", "plain">>, <<"imagex", "png">>,
     <<"image", "jpeg">>, <<"image", "png">>}

\* not file.content_type
NoContentType(content_type) == content_type \in {<<>>, <<"">>}

\* file.content_type.startswith('image/')
StartsWithImage(content_type) ==
    Len(content_type) >= 2 /\ content_type[1] = "image"

\* len(contents) of the uploads told apart.
UploadSizes == {0, 1, MAX_FILE_SIZE - 1, MAX_FILE_SIZE, MAX_FILE_SIZE + 1}

\* An endpoint that checks the content type only.
RejectUpload_TypeOnly(content_type, size) ==
    IF NoContentType(content_type) \/ ~StartsWithImage(content_type)
    THEN "Invalid file type. Please upload an image file."
    ELSE "None"

\* Lines 51-65: the detail of the HTTPException the checks raise, None
\* when the upload passes both.
RejectUpload(content_type, size) ==
    IF NoContentType(content_type) \/ ~StartsWithImage(content_type)
    THEN "Invalid file type. Please upload an image file."
    ELSE IF size > MAX_FILE_SIZE
    THEN "File too large. Maximum size is 10MB."
    ELSE "None"

\* The pipeline's stages in their order, and its two terminal states.
Stages ==
    <<"Validating", "Identifying", "AnalyzingCondition",
      "GeneratingActionPlan", "FormattingOutput">>

ValidationOutcomes ==
    {"VALID_PLANT", "INVALID_NOT_PLANT", "INVALID_ILLEGAL_PLANT",
     "INVALID_INAPPROPRIATE", "INVALID_UNCLEAR"}

\* The human-readable reason mapped to a validation outcome.
ValidationMessage(outcome) ==
    CASE outcome = "INVALID_NOT_PLANT" -> "Image does not contain a plant"
      [] outcome = "INVALID_ILLEGAL_PLANT" -> "controlled substances"
      [] outcome = "INVALID_INAPPROPRIATE" -> "inappropriate content"
      [] outcome = "INVALID_UNCLEAR" -> "image is unclear"
      [] OTHER -> "image is too small"

\* The identifier's outputs: a species label or the sentinel of a
\* disallowed plant.
Sentinel == "ILLEGAL_PLANT_DETECTED"
SpeciesLabels == {"Monstera Deliciosa", Sentinel}

\* A result of the service is a dict, told by its keys.
ErrorKeys == {"error", "message"}
DiagnosisKeys == {"plant_name", "condition", "detail_diagnosis", "action_plan"}
NoDiagnosisResult == [keys |-> {}, error |-> "None", message |-> "None"]
ErrorPayload(code, message) ==
    [keys |-> ErrorKeys, error |-> code, message |-> message]
DiagnosisPayload ==
    [keys |-> DiagnosisKeys, error |-> "None", message |-> "None"]

NoHttpResponse == [status |-> 0, shape |-> "none", detail |-> "None"]

\* The call record of one upload.
DiagnoseRecord(content_type, size) ==
    [op |-> "diagnose", content_type |-> content_type, size |-> size,
     at |-> "endpoint", stage |-> "None", invoked |-> <<>>,
     service_calls |-> 0, validation_result |-> "None",
     plant_name |-> "None", out |-> NoDiagnosisResult,
     response |-> NoHttpResponse]

\* Lines 50-71: the checks, the read and the call of the service.
DiagnoseStart(content_type, size) ==
    LET call == DiagnoseRecord(content_type, size)
        detail == RejectUpload(content_type, size)
    IN  /\ ret' =
            IF NoContentType(content_type) \/ ~StartsWithImage(content_type)
            THEN [call EXCEPT !.at = "responded",
                              !.response = [status |-> 400,
                                            shape |-> "http_error",
                                            detail |-> detail]]
            ELSE IF detail # "None"
            THEN [call EXCEPT !.at = "responded",
                              !.response = [status |-> 400,
                                            shape |-> "http_error",
                                            detail |-> detail]]
            ELSE [call EXCEPT !.at = "service", !.service_calls = 1,
                              !.stage = Stages[1]]
        /\ UNCHANGED <<env, turns, completed, pc, req, state, rounds,
                       checkpointer, llm_input, agent_response, result,
                       current_state, store, configured, db_convs, db_msgs,
                       context_data>>

\* A stage has run: the record of the stages invoked grows by it and the
\* pipeline stands at `next`.
StageDone(next, changes) ==
    /\ ret' = [changes EXCEPT !.stage = next,
                              !.invoked = Append(ret.invoked, ret.stage)]
    /\ UNCHANGED <<env, turns, completed, pc, req, state, rounds,
                   checkpointer, llm_input, agent_response, result,
                   current_state, store, configured, db_convs, db_msgs,
                   context_data>>

\* Validating: an image under the minimum dimensions is rejected before
\* the model is asked; any outcome but VALID_PLANT leads to Error.
Validating(too_small, outcome) ==
    /\ ret.op = "diagnose" /\ ret.at = "service"
    /\ ret.stage = "Validating"
    /\ IF too_small
       THEN StageDone("Error",
                [ret EXCEPT !.validation_result = "TOO_SMALL",
                            !.out = ErrorPayload("validation_failed",
                                        ValidationMessage("TOO_SMALL"))])
       ELSE IF outcome # "VALID_PLANT"
       THEN StageDone("Error",
                [ret EXCEPT !.validation_result = outcome,
                            !.out = ErrorPayload("validation_failed",
                                        ValidationMessage(outcome))])
       ELSE StageDone("Identifying", [ret EXCEPT !.validation_result = outcome])

\* Identifying: the sentinel leads to Error, a species label to the
\* condition analysis.
Identifying(label) ==
    /\ ret.op = "diagnose" /\ ret.at = "service"
    /\ ret.stage = "Identifying"
    /\ IF label = Sentinel
       THEN StageDone("Error",
                [ret EXCEPT !.out = ErrorPayload("illegal_plant",
                                        "controlled substances")])
       ELSE StageDone("AnalyzingCondition", [ret EXCEPT !.plant_name = label])

\* AnalyzingCondition and GeneratingActionPlan degrade on format noise and
\* never fail the pipeline.
AnalyzingCondition ==
    /\ ret.op = "diagnose" /\ ret.at = "service"
    /\ ret.stage = "AnalyzingCondition"
    /\ StageDone("GeneratingActionPlan", ret)

GeneratingActionPlan ==
    /\ ret.op = "diagnose" /\ ret.at = "service"
    /\ ret.stage = "GeneratingActionPlan"
    /\ StageDone("FormattingOutput", ret)

\* FormattingOutput: the projection of the state into the response shape.
FormattingOutput ==
    /\ ret.op = "diagnose" /\ ret.at = "service"
    /\ ret.stage = "FormattingOutput"
    /\ StageDone("Complete", [ret EXCEPT !.out = DiagnosisPayload])

\* An endpoint that answers every result as a diagnosis.
ResponseShape_Diagnosis(out) == "diagnosis"

\* Lines 73-78: a result with the key "error" is answered as
\* PlantDiagnosisError, any other as PlantDiagnosisResponse.
ResponseShape(out) == IF "error" \in out.keys THEN "error" ELSE "diagnosis"

\* Lines 71-78: the pipeline has ended and the endpoint answers its result.
DiagnoseReturn ==
    /\ ret.op = "diagnose" /\ ret.at = "service"
    /\ ret.stage \in {"Error", "Complete"}
    /\ ret' = [ret EXCEPT !.at = "responded",
                          !.response = [status |-> 200,
                                        shape |-> ResponseShape(ret.out),
                                        detail |-> ret.out.error]]
    /\ UNCHANGED <<env, turns, completed, pc, req, state, rounds,
                   checkpointer, llm_input, agent_response, result,
                   current_state, store, configured, db_convs, db_msgs,
                   context_data>>

InitDiagnose == InitWith(TurnsEnv)

\* Uploads share nothing, so a behaviour holds one of them.
DiagnoseCall ==
    /\ ret.op = "none"
    /\ \E content_type \in ContentTypes, size \in UploadSizes :
          DiagnoseStart(content_type, size)

PipelineStep ==
    \/ \E too_small \in BOOLEAN, outcome \in ValidationOutcomes :
          Validating(too_small, outcome)
    \/ \E label \in SpeciesLabels : Identifying(label)
    \/ AnalyzingCondition
    \/ GeneratingActionPlan
    \/ FormattingOutput

NextDiagnose == DiagnoseCall \/ PipelineStep \/ DiagnoseReturn

SpecDiagnose == InitDiagnose /\ [][NextDiagnose]_vars


(***************************************************************************)
(* Properties of the conversation engine.                                  *)
(***************************************************************************)
\* Between a tool request and any later assistant message of the list there
\* is a tool result.
ToolResultBetween(messages) ==
    \A i, j \in 1..Len(messages) :
        (i < j /\ HasToolCalls(messages[i]) /\ messages[j].role = "ai")
        => \E k \in (i + 1)..(j - 1) : messages[k].role = "tool"

\* r takes the step that ends the chat node.
ChatStep(r) == pc[r] = "chat_llm" /\ pc'[r] \notin {"chat_llm", "graph_raise"}

\* r takes the step of the tool node.
ToolsStep(r) == pc[r] = "tools" /\ pc'[r] \notin {"tools", "graph_raise"}

C1_State ==
    \A r \in Reqs :
        /\ ToolResultBetween(state[r].messages)
        /\ pc[r] \in {"save_context", "graph_end"} /\ state[r].messages # <<>>
           => ~HasToolCalls(Last(state[r].messages))

C1_Step ==
    \A r \in Reqs :
        /\ (ChatStep(r) /\ HasToolCalls(Last(state'[r].messages)))
           => pc'[r] = "tools"
        /\ ToolsStep(r)
           => /\ pc'[r] = "chat"
              /\ Len(state'[r].messages) = Len(state[r].messages) + 1
              /\ Last(state'[r].messages).role = "tool"

\* C1: a model response with a tool call sends the turn from the chat node
\* to the tool node and back to the chat node, the tool node appending the
\* tool result; no assistant message follows a tool request in the message
\* list without a tool result in between, and the turn never ends on a tool
\* request.
C1_ToolLoop == []C1_State /\ [][C1_Step]_vars

\* A turn ended with a tool request, its result and then a textual answer.
C1_Witness ==
    \E r \in Reqs :
        /\ pc[r] = "graph_end"
        /\ \E i, k, j \in 1..Len(state[r].messages) :
              /\ i < k /\ k < j /\ j = Len(state[r].messages)
              /\ HasToolCalls(state[r].messages[i])
              /\ state[r].messages[k].role = "tool"
              /\ state[r].messages[j].role = "ai"
              /\ state[r].messages[j].kind = "text"

\* C2: whatever the graph run did (ended, or raised), the record
\* PlantAssistantAgent.process_message hands to its caller is a returned
\* record with a non-empty response; the call never raises.
C2_AlwaysAResponse ==
    \A r \in Reqs :
        /\ agent_response[r].status \in {"none", "returned"}
        /\ agent_response[r].status = "returned"
           => agent_response[r].response # ""
        /\ pc[r] \in {"ctx_db", "ctx_summarize", "ctx_store", "svc_return",
                      "svc_raise", "done"}
           => agent_response[r].status = "returned"

\* The graph run raised and the agent returned the fixed apology.
C2_Witness ==
    \E r \in Reqs :
        /\ agent_response[r].status = "returned"
        /\ agent_response[r].response = ProcessingError
        /\ agent_response[r].error # None

\* C3: the step that ends the chat node after the model raised (the error
\* is recorded, or the fixed apology is the last message) appends exactly
\* the one apology to the messages, records the error and leads to the
\* save node; with an error recorded the turn is never in the chat or tool
\* node again and holds one apology only.
C3_Step ==
    \A r \in Reqs :
        (ChatStep(r) /\ (state'[r].error # None
                         \/ Last(state'[r].messages).kind = "apology"))
        => /\ state'[r].messages =
                  Append(state[r].messages,
                         AIMessage("apology", req[r].turn,
                                   Len(state[r].messages) + 1))
           /\ state'[r].error = "error"
           /\ state[r].error = None
           /\ pc'[r] = "save_context"

C3_State ==
    \A r \in Reqs :
        state[r].error # None
        => /\ pc[r] \notin {"chat", "chat_llm", "tools"}
           /\ Cardinality({i \in 1..Len(state[r].messages) :
                              state[r].messages[i].kind = "apology"}) = 1

C3_ReasonFailure == []C3_State /\ [][C3_Step]_vars

\* The model raised on the pass after a tool result; the turn ended.
C3_Witness ==
    \E r \in Reqs :
        /\ pc[r] = "graph_end"
        /\ state[r].error = "error"
        /\ Last(state[r].messages).kind = "apology"
        /\ \E i \in 1..Len(state[r].messages) :
              state[r].messages[i].role = "tool"

\* The kinds of result the image tool returns.
ImageToolKinds == {"image_error", "no_image", "visual_api"}

\* C4: the state the image tool read while it ran for a request is the
\* state of that request's own turn, never that of another conversation in
\* flight.
C4_ToolReadsOwnState ==
    \A r \in Reqs :
        \A i \in 1..Len(state[r].messages) :
            (state[r].messages[i].role = "tool"
             /\ state[r].messages[i].kind \in ImageToolKinds)
            => state[r].messages[i].src = req[r].turn

\* C5: when the model is called for a turn of a conversation, the list it
\* is given holds messages of every turn completed earlier on that
\* conversation, and of no other turn than those and its own.
C5_ResumesFromCheckpoint ==
    \A r \in Reqs :
        pc[r] = "chat_llm"
        => /\ \A t \in req[r].after :
                 \E i \in 1..Len(llm_input[r]) : llm_input[r][i].turn = t
           /\ \A i \in 1..Len(llm_input[r]) :
                 llm_input[r][i].turn \in req[r].after \cup {req[r].turn}

\* Summarization or storage of r's turn failed.
ContextFailed(r) ==
    context_data[r].stored = "False" \/ context_data[r].summary[2] = "failed"

\* C6: when summarization or storage of the turn failed, the service does
\* not raise: it returns the agent's reply, with no error.
C6_SaveIsBestEffort ==
    \A r \in Reqs :
        ContextFailed(r)
        => /\ pc[r] \notin {"svc_raise", "raised"}
           /\ result[r].status # "raised"
           /\ pc[r] = "done"
              => result[r] = [status |-> "returned",
                              response |-> agent_response[r].response,
                              error |-> None]

\* Storage of the turn failed and the caller has the model's answer.
C6_Witness ==
    \E r \in Reqs :
        /\ pc[r] = "done"
        /\ context_data[r].stored = "False"
        /\ context_data[r].summary[2] = "summary"
        /\ result[r].status = "returned"
        /\ result[r].response = "answer"

\* C7: while the summarization and storage of a turn are under way, the
\* reply of that turn has already been returned to the caller.
C7_ReplyDoesNotWait ==
    \A r \in Reqs :
        pc[r] \in {"ctx_db", "ctx_summarize", "ctx_store"}
        => result[r].status = "returned"

(***************************************************************************)
(* Properties of context retrieval.                                        *)
(***************************************************************************)
\* The entries of the store the last call's filter matches.
RetMatching == Matching(store, ret.user_id, ret.conversation_id)

\* C8: a retrieval called with top_k = k returns at most k entries.
C8_AtMostTopK ==
    ret.op = "retrieve" => Len(ret.results) <= ret.top_k

\* More entries matched than were asked for, and top_k came back.
C8_Witness ==
    /\ ret.op = "retrieve"
    /\ ret.top_k >= 1
    /\ Cardinality(RetMatching) > ret.top_k
    /\ Len(ret.results) = ret.top_k

\* C9: a retrieval never raises, and returns the empty list when the
\* filter matches nothing, the store is not configured, or the query raised.
C9_NeverRaises ==
    ret.op = "retrieve"
    => /\ ~ret.raised
       /\ (RetMatching = {} \/ ~configured \/ ret.query_raised)
          => ret.results = <<>>

\* The query raised although entries matched; the caller got the empty list.
C9_Witness ==
    /\ ret.op = "retrieve"
    /\ ret.query_raised
    /\ RetMatching # {}
    /\ ~ret.raised
    /\ ret.results = <<>>

\* C10: every match the store answered is in the result whatever its
\* score, the result is in descending order of score, and every result's
\* summary is in the context the chat service hands to the agent.
C10_NoThreshold ==
    ret.op # "none"
    => /\ Len(ret.results) = Len(ret.matches)
       /\ \A i \in 1..Len(ret.matches) :
             \E j \in 1..Len(ret.results) :
                 ret.results[j] = ContextResult(ret.matches[i])
       /\ \A i, j \in 1..Len(ret.results) :
             i < j => ret.results[i].relevance_score
                        >= ret.results[j].relevance_score
       /\ ret.op = "service"
          => \A i \in 1..Len(ret.results) :
                \E j \in 1..Len(ret.context_dict.recent_conversations) :
                    ret.context_dict.recent_conversations[j]
                      = ret.results[i].summary

\* C11: every entry a retrieval returns has a relevance score between 0 and
\* 1 (0 and 10 tenths), whatever timestamp the stored entry holds.
C11_ScoreInUnitInterval ==
    ret.op = "retrieve"
    => \A i \in 1..Len(ret.results) :
          /\ ret.results[i].relevance_score >= 0
          /\ ret.results[i].relevance_score <= 10

\* The ages, in days, of the entries of a result list.
ResultAges(results) == [i \in 1..Len(results) |-> DaysAgo(results[i].timestamp)]
ResultScores(results) == [i \in 1..Len(results) |-> results[i].relevance_score]

\* C12: on the store of scenario 4, a retrieval for u1 with top_k = 3 under
\* conversation c1 that the store answers returns the entries aged 0, 1 and
\* 9 days, in that order, with scores 1.0, 0.9 and 0.2.
C12_Scenario4 ==
    (/\ ret.op = "retrieve"
     /\ store = Scenario4Store
     /\ configured
     /\ ~ret.query_raised
     /\ ret.user_id = "u1" /\ ret.top_k = 3 /\ ret.conversation_id = "c1")
    => /\ ResultAges(ret.results) = <<0, 1, 9>>
       /\ ResultScores(ret.results) = <<10, 9, 2>>

(***************************************************************************)
(* Properties of context storing.                                          *)
(***************************************************************************)
\* The entries of st under another id than that of the pair.
EntriesOfOthers(st, user_id, conversation_id) ==
    st \ EntriesOf(st, user_id, conversation_id)

C13_State ==
    /\ \A e1, e2 \in store :
          ContextId(e1.user_id, e1.conversation_id)
            = ContextId(e2.user_id, e2.conversation_id) => e1 = e2
    /\ (ret.op = "store" /\ ret.stored = "True")
       => \E e \in store :
             /\ EntriesOf(store, ret.user_id, ret.conversation_id) = {e}
             /\ e.summary = ret.summary

C13_Step ==
    (ret'.op = "store" /\ turns' # turns)
    => /\ EntriesOfOthers(store', ret'.user_id, ret'.conversation_id)
            = EntriesOfOthers(store, ret'.user_id, ret'.conversation_id)
       /\ ret'.stored = "False" => store' = store
       /\ EntriesOf(store, ret'.user_id, ret'.conversation_id) # {}
          => EntriesOf(store', ret'.user_id, ret'.conversation_id) # {}

\* C13: the store holds at most one entry per (user, conversation) pair;
\* after a successful store the pair's entry carries the summary just
\* stored; a store call leaves the entries of every other pair as they
\* were, changes nothing when it fails, and never removes the pair's entry.
C13_Supersede == []C13_State /\ [][C13_Step]_vars

\* A successful store for a pair that had an entry, beside another pair's.
C13_Witness ==
    /\ ret.op = "store"
    /\ ret.stored = "True"
    /\ ret.matches # <<>>
    /\ ret.matches[1].summary # ret.summary
    /\ \E e \in store :
          /\ EntriesOf(store, ret.user_id, ret.conversation_id) = {e}
          /\ e.summary = ret.summary
    /\ EntriesOfOthers(store, ret.user_id, ret.conversation_id) # {}

(***************************************************************************)
(* Properties of the diagnosis aggregator.                                 *)
(***************************************************************************)
\* v is a most frequent element of s.
IsMode(s, v) ==
    /\ v \in Range(s)
    /\ \A w \in Range(s) : Count(s, v) >= Count(s, w)

\* The index of the first occurrence of v in s.
FirstIndex(s, v) ==
    CHOOSE i \in 1..Len(s) : s[i] = v /\ \A j \in 1..(i - 1) : s[j] # v

\* An aggregation of a non-empty candidate list has been called.
Aggregated == ret.op = "aggregate" /\ ret.context_results # <<>>

\* C14: the plant_name returned for a non-empty candidate list is a most
\* frequent name of the candidates, and of the most frequent names the one
\* that occurs first in the list.
C14_PlantNameMode ==
    Aggregated
    => LET names == PlantNames(ret.context_results)
       IN  /\ IsMode(names, ret.out.plant_name)
           /\ \A w \in Range(names) :
                 IsMode(names, w)
                 => FirstIndex(names, ret.out.plant_name)
                      <= FirstIndex(names, w)

\* The conditions of the candidates whose condition is not "Unknown"; a
\* candidate that carries no condition has none to give.
KnownConditions(context_results) ==
    LET kept == SelectSeq(context_results,
                    LAMBDA ctx : ctx.condition \notin {"Unknown", Missing})
    IN  [i \in 1..Len(kept) |-> kept[i].condition]

GivenTreatments(context_results) ==
    UNION {Range(context_results[i].treatment.items) :
             i \in 1..Len(context_results)}

\* C16: the treatments returned hold no duplicate and at most 5 entries,
\* all given by candidates, in the order of their first occurrence in the
\* concatenation of the candidates' treatments; a treatment left out
\* occurs first after all those returned, and only when 5 are returned.
C16_Treatments ==
    ret.op = "aggregate"
    => LET T == ret.out.treatments
           A == ret.all_treatments
       IN  /\ Range(A) = GivenTreatments(ret.context_results)
           /\ Len(T) <= 5
           /\ \A i, j \in 1..Len(T) : i # j => T[i] # T[j]
           /\ Range(T) \subseteq Range(A)
           /\ \A i, j \in 1..Len(T) :
                 i < j => FirstIndex(A, T[i]) < FirstIndex(A, T[j])
           /\ \A x \in Range(A) \ Range(T) :
                 /\ Len(T) = 5
                 /\ \A i \in 1..Len(T) :
                       FirstIndex(A, T[i]) < FirstIndex(A, x)

\* Six treatments were given, some more than once; five came back.
C16_Witness ==
    /\ ret.op = "aggregate"
    /\ Cardinality(Range(ret.all_treatments)) > 5
    /\ Len(ret.all_treatments) > Cardinality(Range(ret.all_treatments))
    /\ Len(ret.out.treatments) = 5
    /\ ret.out.treatments[1] = ret.all_treatments[1]

\* C17: a candidate list and any permutation of it give the same
\* plant_name and the same condition.
C17_OrderInsensitive ==
    ret.op = "aggregate"
    => /\ ret.out.plant_name = ret.out_permuted.plant_name
       /\ ret.out.condition = ret.out_permuted.condition

\* C18: for no candidate the aggregator returns confidence 0, no
\* treatment, zero similar cases, plant_name "Unknown" and condition
\* "Unable to determine".
C18_EmptyMeansNoEvidence ==
    (ret.op = "aggregate" /\ ret.context_results = <<>>)
    => /\ ret.out.confidence[1] = 0
       /\ ret.out.treatments = <<>>
       /\ ret.out.similar_cases_count = 0
       /\ ret.out.plant_name = "Unknown"
       /\ ret.out.condition = "Unable to determine"

\* The aggregator was called with no candidate and answered.
C18_Witness ==
    /\ ret.op = "aggregate"
    /\ ret.context_results = <<>>
    /\ ret.out.condition # "Healthy"
    /\ ret.out.similar_cases_count = 0

\* C19: when the similar-case query gives no candidate and the tool does
\* not fail, the tool returns the canned response (no success, confidence
\* 0, no treatment, zero context sources) and calls neither the aggregator
\* nor the diagnosis generation; a result with success is built from at
\* least one candidate.
C19_FallbackOnNoCandidate ==
    ret.op = "text_tool"
    => /\ (ret.context_results = <<>> /\ ret.out.analysis_type # "context_error")
          => /\ ret.out.analysis_type = "context_fallback"
             /\ ~ret.out.success
             /\ ret.out.confidence[1] = 0
             /\ ret.out.treatments = <<>>
             /\ ret.out.context_sources = 0
             /\ {"aggregate", "generate"} \cap Range(ret.out.called) = {}
       /\ ret.out.success
          => /\ Len(ret.context_results) >= 1
             /\ ret.out.context_sources = Len(ret.context_results)
       /\ ret.out.analysis_type = "context_error" => ~ret.out.success

\* The store answered matches, none above the threshold, and the tool fell
\* back.
C19_Witness ==
    /\ ret.op = "text_tool"
    /\ ret.search_results # <<>>
    /\ ret.context_results = <<>>
    /\ ~ret.query_raised
    /\ ret.out.analysis_type = "context_fallback"
    /\ ret.out.called = <<"query", "fallback">>


\* The decision the router owes a message list.
RouteOf(messages) ==
    IF Len(messages) >= 1 /\ messages[Len(messages)].role = "ai"
       /\ messages[Len(messages)].kind \in {"call_image", "call_text"}
    THEN "tools" ELSE "save"

C20_State ==
    ret.op = "route"
    => /\ ret.results[1] = RouteOf(ret.matches)
       /\ ret.results[2] = ret.results[1]
       /\ state[ret.user_id].messages = ret.matches

C20_Step == ret'.op = "route" => state' = state

LaterStages ==
    {"Identifying", "AnalyzingCondition", "GeneratingActionPlan",
     "FormattingOutput"}

C21_State ==
    ret.op = "diagnose"
    => /\ (ret.validation_result \notin {"None", "VALID_PLANT"}
           \/ (ret.invoked # <<>> /\ Last(ret.invoked) = "Identifying"
               /\ ret.plant_name = "None"))
          => /\ ret.stage = "Error"
             /\ ret.out.keys = {"error", "message"}
       /\ ret.validation_result \notin {"None", "VALID_PLANT"}
          => ret.invoked = <<"Validating">>
       /\ ret.validation_result = "INVALID_ILLEGAL_PLANT"
          => ret.out.message = "controlled substances"
       /\ ret.stage = "Error" => Range(ret.invoked) \cap LaterStages \subseteq {"Identifying"}
       /\ (ret.at = "responded" /\ ret.service_calls = 1)
          => /\ ret.response.status = 200
             /\ ret.out.keys = {"error", "message"}
                => ret.response.shape = "error"
             /\ ret.out.keys # {"error", "message"}
                => ret.response.shape = "diagnosis"

C21_Step ==
    /\ (ret.op = "diagnose" /\ ret.stage = "Error")
       => /\ ret'.stage = "Error"
          /\ ret'.invoked = ret.invoked
          /\ ret'.out = ret.out
    /\ (ret'.op = "diagnose" /\ ret'.stage = "Error" /\ ret.stage # "Error")
       => ret.stage \in {"Validating", "Identifying"}

C22_RejectBeforeDiagnosis ==
    ret.op = "diagnose"
    => LET image == /\ ret.content_type # <<>>
                    /\ ret.content_type # <<"">>
                    /\ Len(ret.content_type) = 2
                    /\ ret.content_type[1] = "image"
           rejected == ~image \/ ret.size > 10485760
       IN  /\ rejected
              => /\ ret.at = "responded"
                 /\ ret.response.status = 400
                 /\ ret.service_calls = 0
                 /\ ret.invoked = <<>>
                 /\ ret.stage = "None"
           /\ ~rejected
              => /\ ret.service_calls = 1
                 /\ ret.response.status # 400
                 /\ ret.at = "responded" => ret.invoked # <<>>

\* An image of more than 10MB was answered with 400 and never diagnosed.
C22_Witness ==
    /\ ret.op = "diagnose"
    /\ ret.content_type = <<"image", "jpeg">>
    /\ ret.size > 10485760
    /\ ret.response.status = 400
    /\ ret.service_calls = 0


(***************************************************************************)
(* Properties of the graph's node order.                                   *)
(***************************************************************************)
\* The pcs a graph run can stand at after pc a, and those it can have
\* stood at before pc b, in the order load_context, retrieve_context,
\* chat, (tools, chat)*, save_context, END.  chat and chat_llm are the two
\* halves of the chat node; graph_raise is a run that failed.
GraphSuccessors(a) ==
    CASE a = "load_context" -> {"retrieve_context", "graph_raise"}
      [] a = "retrieve_context" -> {"chat", "graph_raise"}
      [] a = "chat" -> {"chat_llm", "graph_raise"}
      [] a = "chat_llm" -> {"tools", "save_context", "graph_raise"}
      [] a = "tools" -> {"chat", "graph_raise"}
      [] a = "save_context" -> {"graph_end", "graph_raise"}
      [] OTHER -> {}

GraphPredecessors(b) ==
    CASE b = "load_context" -> {"svc_retrieve"}
      [] b = "retrieve_context" -> {"load_context"}
      [] b = "chat" -> {"retrieve_context", "tools"}
      [] b = "chat_llm" -> {"chat"}
      [] b = "tools" -> {"chat_llm"}
      [] b = "save_context" -> {"chat_llm"}
      [] b = "graph_end" -> {"save_context"}
      [] OTHER -> {}

C23_Step ==
    \A r \in Reqs :
        pc'[r] # pc[r]
        => /\ pc[r] \in NodePcs \cup {"chat_llm"}
              => pc'[r] \in GraphSuccessors(pc[r])
           /\ pc'[r] \in NodePcs \cup {"chat_llm", "graph_end"}
              => pc[r] \in GraphPredecessors(pc'[r])
           /\ pc'[r] = "tools"
              => /\ state'[r].messages # <<>>
                 /\ Last(state'[r].messages).role = "ai"
                 /\ Last(state'[r].messages).kind \in {"call_image", "call_text"}
           /\ pc'[r] = "save_context"
              => \/ state'[r].messages = <<>>
                 \/ ~(/\ Last(state'[r].messages).role = "ai"
                      /\ Last(state'[r].messages).kind
                            \in {"call_image", "call_text"})
           /\ (pc[r] = "tools" /\ pc'[r] = "chat")
              => rounds'[r] = rounds[r] + 1

\* The model is asked only by a run whose load_context has left a profile,
\* and as many times as tool batches ran plus one.
C23_State ==
    \A r \in Reqs :
        pc[r] \in {"chat_llm", "tools", "save_context", "graph_end"}
        => /\ state[r].user_context.kind # "None"
           /\ Cardinality({i \in 1..Len(state[r].messages) :
                             /\ state[r].messages[i].role = "tool"
                             /\ state[r].messages[i].turn = req[r].turn})
                = rounds[r]

\* C23: a turn runs its nodes one at a time in the order load_context,
\* retrieve_context, chat, then (tools, chat) pairs, then save_context,
\* then END: every node is entered from its predecessor in the graph only,
\* tools is followed by chat, and save_context is entered only after a chat
\* whose answer carries no tool call.
C23_GraphOrder == []C23_State /\ [][C23_Step]_vars

\* A run reached END after one tool batch.
C23_Witness ==
    \E r \in Reqs :
        /\ pc[r] = "graph_end"
        /\ rounds[r] = 1
        /\ \E i \in 1..Len(state[r].messages) : state[r].messages[i].role = "tool"


\* A run is in the loop of the chat and tools nodes.
InLoop(r) == pc[r] \in {"chat", "chat_llm", "tools"}

\* C24: a run that is in the loop of the chat and tools nodes leaves it,
\* whatever the model and the tools answer and after no more tool batches
\* than the runtime's steps allow, and a graph run that was started ends
\* with process_message returning a result.
C24_TurnTerminates ==
    /\ [](\A r \in Reqs : 3 + 2 * rounds[r] <= 25)
    /\ \A r \in Reqs :
          /\ InLoop(r) ~> ~InLoop(r)
          /\ (pc[r] = "load_context")
                ~> (agent_response[r].status = "returned")

\* The model requested a tool on every pass and the run was ended by the
\* runtime; process_message returned the error reply.
C24_Witness ==
    \E r \in Reqs :
        /\ rounds[r] = 11
        /\ agent_response[r].status = "returned"
        /\ agent_response[r].response = ProcessingError


(***************************************************************************)
(* Properties of the context nodes.                                        *)
(***************************************************************************)
\* The retrieve_context node of r runs in this step.
RetrieveContextStep(r) == pc[r] = "retrieve_context" /\ pc'[r] = "chat"

\* The answers the context service can give the node of r: those with an
\* entry that has a summary, and the others (nothing found, or failed).
ContextAnswers(r) ==
    RetrieveUserContext(store, configured, req[r].user_id, 5,
                        req[r].conversation_id)
WithSummary(out) ==
    /\ ~out.raised
    /\ \E i \in 1..Len(out.results) : out.results[i].summary # NoSummary

\* The list `after` is the list `before` with one system context message
\* put right before its last message, which is the user's latest.
ContextInjected(before, after) ==
    LET n == Len(before)
    IN  /\ n >= 1
        /\ Len(after) = n + 1
        /\ before[n].role = "human"
        /\ after[n + 1] = before[n]
        /\ after[n].role = "system" /\ after[n].kind = "context"
        /\ \A i \in 1..(n - 1) : after[i] = before[i]
        /\ Cardinality({i \in 1..(n + 1) : after[i] \notin Range(before)}) = 1

C25_Step ==
    \A r \in Reqs :
        RetrieveContextStep(r)
        => LET before == state[r].messages
               after == state'[r].messages
           IN  /\ after = before \/ ContextInjected(before, after)
               /\ after # before
                  => /\ req[r].message # "empty"
                     /\ \E out \in ContextAnswers(r) : WithSummary(out)
               /\ after = before
                  => \/ req[r].message = "empty"
                     \/ \E out \in ContextAnswers(r) : ~WithSummary(out)
               /\ (\A out \in ContextAnswers(r) : ~WithSummary(out))
                  => after = before

\* C25: when the retrieval gives an entry with a summary, retrieve_context
\* adds one system context message right before the user's latest message
\* and never after it; when it gives nothing or fails, or the message text
\* is missing, the list stays as it was; either way the run goes on to the
\* chat node.
C25_ContextBeforeUserMessage == [][C25_Step]_vars

\* A run stands before the chat node with a context message right before
\* the user's message.
C25_Witness ==
    \E r \in Reqs :
        /\ pc[r] = "chat"
        /\ rounds[r] = 0
        /\ Len(state[r].messages) >= 2
        /\ Last(state[r].messages).role = "human"
        /\ state[r].messages[Len(state[r].messages) - 1].kind = "context"


\* The load_context node of r runs in this step.
LoadContextStep(r) == pc[r] = "load_context" /\ pc'[r] = "retrieve_context"

\* The profiles load_context builds from what a retrieval call returned.
BuiltFromRetrieval == {"aggregated", "default"}

C26_Step ==
    \A r \in Reqs :
        LoadContextStep(r)
        => /\ state[r].user_context.kind # "None" => state'[r] = state[r]
           /\ state[r].user_context.kind = "None"
              => state'[r].user_context.kind \in BuiltFromRetrieval

\* C26: load_context calls the context service exactly when the state
\* holds no profile: with a profile it calls nothing and leaves the state
\* as it was; without one it retrieves for the user id the chat service
\* passed and builds the profile from the entries returned.
C26_LoadContextRetrieves == [][C26_Step]_vars


\* C27: load_context never raises, and when the retrieval it made failed
\* or returned nothing (as when it made none and no profile was given) it
\* leaves a profile whose experience_level is "beginner" and whose list of
\* plants discussed is empty; the run goes on to retrieve_context.
C27_DefaultProfile ==
    ret.op = "load"
    => /\ ~ret.raised
       /\ ret.next = "retrieve_context"
       /\ (ret.given.kind = "None"
           /\ (~ret.called \/ ret.query_raised \/ ret.answer = <<>>))
          => /\ ret.user_context.kind # "None"
             /\ "experience_level" \in ret.profile.keys
             /\ ret.profile.experience_level = "beginner"
             /\ ret.profile.plants_discussed = <<>>

\* The node called the context service, whose query failed, and left the
\* default profile.
C27_Witness ==
    /\ ret.op = "load"
    /\ ret.called
    /\ ret.query_raised
    /\ ret.user_context.kind = "default"
    /\ ret.profile.experience_level = "beginner"


(***************************************************************************)
(* Properties of the message list.                                         *)
(***************************************************************************)
IsPrefix(s, t) == Len(s) <= Len(t) /\ \A i \in 1..Len(s) : t[i] = s[i]

\* A node of r's graph run runs in this step.
NodeStep(r) == pc[r] \in NodePcs \cup {"chat_llm"} /\ pc'[r] # pc[r]

C28_Step ==
    \A r \in Reqs :
        NodeStep(r) => IsPrefix(state[r].messages, state'[r].messages)

\* C28: within a turn every node leaves a message list of which the list
\* it found is a prefix (entries are added at the end only, none is
\* inserted, moved or removed), and the image is held by the state's
\* image field only.
C28_AppendOnly == [][C28_Step]_vars


\* The base system prompts in a message list.
BasePrompts(messages) ==
    {i \in 1..Len(messages) :
        messages[i].role = "system" /\ messages[i].kind = "prompt"}

\* C29: every list the chat node passes to the model holds the base system
\* prompt exactly once, with or without a context message from
\* retrieve_context and on every pass of the loop of chat and tools.
C29_BasePromptOnce ==
    \A r \in Reqs :
        pc[r] = "chat_llm" => Cardinality(BasePrompts(llm_input[r])) = 1

\* C30: the two tools always answer a result whose success is a boolean.
\* The image tool called in a turn without image answers success false
\* with the error "No image data provided" and has not called the
\* diagnosis service; and whenever the diagnosis service, the embedder,
\* the vector store or the language model failed during a call, the
\* result has success false and no treatment recommendation.
ToolFailed ==
    \/ /\ ret.op = "text_tool"
       /\ \/ ret.query_raised
          \/ ~ret.service_ok
          \/ ret.llm_raised /\ ret.out.called # <<>>
             /\ ret.out.called[Len(ret.out.called)] = "generate"
    \/ ret.op = "image_tool" /\ ret.service_raised
                             /\ ret.out.called = <<"diagnose_plant">>

C30_ToolsAnswerFailure ==
    ret.op \in {"text_tool", "image_tool"} =>
        /\ ret.out.success \in BOOLEAN
        /\ (ret.op = "image_tool" /\ ret.image_base64 = None) =>
              /\ ~ret.out.success
              /\ ret.out.error = "No image data provided"
              /\ ret.out.called = <<>>
        /\ ToolFailed => ~ret.out.success /\ ret.out.treatments = <<>>
==========================================================================
